---- MODULE Spec2Model ----
(***************************************************************************)
(* Model of the in-circuit Merkle-Patricia-Trie proof verifier of          *)
(* apps/circuits/src/trie_proof: byte utilities (utils.nr), the RLP        *)
(* decoder (rlp.nr), the node resolver and the two proof drivers           *)
(* (node.nr / state_proof.nr in src/unnamed/part_001, storage_proof.nr).   *)
(*                                                                         *)
(* Conventions.  A Noir array [u8; N] is a sequence of N naturals < 256;   *)
(* the element with Noir index i is arr[i + 1] (operator At).  A Noir      *)
(* function whose assertions may fail is an operator that returns a record *)
(* with a field err: "none" when every assertion passed, otherwise the     *)
(* name of the FIRST assertion (in program order) that failed.  Unsigned   *)
(* arithmetic is checked as in Noir (overflow and underflow abort), casts  *)
(* truncate.  depth is a u64 and is kept as four 16-bit limbs, least       *)
(* significant first, because the casts of depth - 1 to u32 and u8 matter. *)
(***************************************************************************)
EXTENDS Integers, Sequences, FiniteSets, TLC

(***************************************************************************)
(* Program constants (const.nr, rlp.nr)                                    *)
(***************************************************************************)
MAX_TRIE_NODE_LENGTH == 532
KEY_LENGTH == 32
NIBBLE_LENGTH == 64
MAX_NUM_FIELDS == 17
MAX_STORAGE_VALUE_LENGTH == 32
MAX_ACCOUNT_STATE_LENGTH == 134
BRANCH == 0
LEAF == 1
MAX_LEN_IN_BYTES == 2
RLP_STRING == 0
RLP_LIST == 1

(***************************************************************************)
(* Array helpers                                                           *)
(***************************************************************************)
At(arr, i) == arr[i + 1]

Zeros(n) == [k \in 1..n |-> 0]


\* bool as u64
Ind(b) == IF b THEN 1 ELSE 0

\* dep::std::wrapping_sub on u8
wrapping_sub(x, y) == (x - y + 256) % 256

\* fn strict_if(pred, x, y): both x and y are evaluated by the caller
strict_if(pred, x, y) == IF pred THEN x ELSE y

(***************************************************************************)
(* utils.nr                                                                *)
(***************************************************************************)
\* The proof buffer [u8; PROOF_LEN] is held as [len, at]: its length and its
\* bytes by position (from 1); a position `at` does not list holds 0.
Bytes(seq) == [len |-> Len(seq), at |-> seq]

\* src[idx]
ByteAt(src, idx) == IF (idx + 1) \in DOMAIN src.at THEN src.at[idx + 1] ELSE 0

\* memcpy(dest, src, offset): dest[i] = src[offset + i]; an index past the
\* end of src aborts.  Returns [err, out].
memcpy(n, src, offset) ==
    IF offset + n > src.len
    THEN [err |-> "index_out_of_bounds", out |-> <<>>]
    ELSE [err |-> "none", out |-> [k \in 1..n |-> ByteAt(src, offset + k - 1)]]

\* assert_subarray(subarray, array, len, offset)
assert_subarray(subarray, array, len, offset) ==
    LET idx == {i \in 0..(Len(subarray) - 1) : i < len}
    IN  IF \E i \in idx : offset + i >= Len(array)
        THEN "index_out_of_bounds"
        ELSE IF \E i \in idx : At(subarray, i) # At(array, offset + i)
             THEN "arrays_do_not_match"
             ELSE "none"

byte_to_nibbles(b) == <<b \div 16, b - 16 * (b \div 16)>>

\* left_byte_shift(input, n): out[i] = input[i + n] when i + n < N, else 0
left_byte_shift(input, n) ==
    LET N == Len(input)
    IN  [k \in 1..N |->
            LET i == k - 1
                index_ind == Ind(i + n < N)
            IN  index_ind * At(input, index_ind * (i + n))]

\* A loop that counts the bytes behind the first non-zero byte and leaves
\* that byte out (N - i - 1 for N - i): the variant against which the
\* returned length and the shift are tested
RECURSIVE byte_value_loop_one_short(_, _, _, _)
byte_value_loop_one_short(in_value, lo, hi, value_length) ==
    IF lo > hi THEN value_length
    ELSE byte_value_loop_one_short(in_value, lo + 1, hi,
             IF value_length = 0 /\ At(in_value, lo) # 0
             THEN Len(in_value) - lo - 1 ELSE value_length)

\* A loop that takes the length from every non-zero byte, not only from the
\* first one (no num_bytes_ind): the variant against which the count of the
\* significant bytes is tested
RECURSIVE byte_value_loop_last_nonzero(_, _, _, _)
byte_value_loop_last_nonzero(in_value, lo, hi, value_length) ==
    IF lo > hi THEN value_length
    ELSE byte_value_loop_last_nonzero(in_value, lo + 1, hi,
             IF At(in_value, lo) # 0 THEN Len(in_value) - lo ELSE value_length)

\* Iterations lo .. hi of byte_value's loop, started with value_length
\* (the range is halved to keep the evaluation stack shallow; the iterations
\* run in index order)
RECURSIVE byte_value_loop(_, _, _, _)
byte_value_loop(in_value, lo, hi, value_length) ==
    IF lo > hi THEN value_length
    ELSE IF lo = hi
    THEN LET N == Len(in_value)
             num_bytes_ind == Ind(value_length = 0)
             byte_ind == Ind(At(in_value, lo) # 0)
         IN  num_bytes_ind * byte_ind * (N - lo) + (1 - num_bytes_ind) * value_length
    ELSE LET mid == (lo + hi) \div 2
             left == byte_value_loop(in_value, lo, mid, value_length)
         IN  IF left >= 0 THEN byte_value_loop(in_value, mid + 1, hi, left) ELSE 0

\* byte_value(in_value) -> (value, value_length)
byte_value(in_value) ==
    LET value_length == byte_value_loop(in_value, 0, Len(in_value) - 1, 0)
    IN  [value |-> left_byte_shift(in_value, Len(in_value) - value_length),
         value_length |-> value_length]

(***************************************************************************)
(* rlp.nr                                                                  *)
(***************************************************************************)
\* take_dot_drop(arr, n) -> [T; M]: out[i] = arr[i + n] when i + n < N,
\* arr[0] otherwise.
take_dot_drop(arr, n, M) ==
    [k \in 1..M |->
        LET i == k - 1
        IN  IF i + n < Len(arr) THEN At(arr, i + n) ELSE At(arr, 0)]

\* A length read that takes the length bytes least significant first: the
\* variant against which the round trip of long items is tested
data_len_loop_little_endian(arr, lenlen, loop_len, i, out) ==
    (IF lenlen >= 1 /\ loop_len >= 1 THEN At(arr, 1) ELSE 0)
        + (IF lenlen >= 2 /\ loop_len >= 2 THEN 256 * At(arr, 2) ELSE 0)

RECURSIVE data_len_loop(_, _, _, _, _)
data_len_loop(arr, lenlen, loop_len, i, out) ==
    IF i >= loop_len THEN out
    ELSE LET len_len_ind == Ind(i < lenlen)
         IN  data_len_loop(arr, lenlen, loop_len, i + 1,
                 len_len_ind * (256 * out + At(arr, i + 1))
                     + (1 - len_len_ind) * out)

\* data_len(arr, lenlen) -> [err, out]
data_len(arr, lenlen) ==
    IF lenlen > MAX_LEN_IN_BYTES
    THEN [err |-> "lenlen_exceeds_max", out |-> 0]
    ELSE LET N == Len(arr)
             loop_len == IF MAX_LEN_IN_BYTES < N - 1
                         THEN MAX_LEN_IN_BYTES ELSE N - 1
         IN  [err |-> "none", out |-> data_len_loop(arr, lenlen, loop_len, 0, 0)]

\* A length-of-length that treats every list prefix as a short list: the
\* variant against which the header table is tested
decode_len_lenlen_short_lists(prefix) ==
    Ind(prefix < 192) * (1 - Ind(prefix < 184)) * wrapping_sub(prefix, 183)

\* The length-of-length decode_len derives from the prefix byte
decode_len_lenlen(prefix) ==
    Ind(prefix < 192) * (1 - Ind(prefix < 184)) * wrapping_sub(prefix, 183)
        + (1 - Ind(prefix < 248)) * wrapping_sub(prefix, 247)

\* The RLP_Header decode_len builds from prefix, lenlen and dl = data_len(arr, lenlen)
decode_len_header(prefix, lenlen, dl) ==
    IF 1 + prefix > 255
    THEN [err |-> "u8_add_overflow", offset |-> 0, length |-> 0, data_type |-> 0]
    ELSE IF dl.err # "none"
    THEN [err |-> dl.err, offset |-> 0, length |-> 0, data_type |-> 0]
    ELSE [err |-> "none",
          offset |-> strict_if(prefix < 128, 0,
                       strict_if(prefix < 184, 1,
                         strict_if(prefix < 192, wrapping_sub(1 + prefix, 183),
                           strict_if(prefix < 248, 1, wrapping_sub(1 + prefix, 247))))),
          length |-> strict_if(lenlen = 0,
                       strict_if(prefix < 128, 1,
                         strict_if(prefix < 184, wrapping_sub(prefix, 128),
                                                 wrapping_sub(prefix, 192))),
                       dl.out),
          data_type |-> Ind(prefix >= 192)]

\* decode_len(arr) -> RLP_Header, as [err, offset, length, data_type].
\* 1 + prefix is a u8 addition (aborts for prefix = 255), and strict_if
\* evaluates data_len(arr, lenlen) for every prefix.
decode_len(arr) ==
    decode_len_header(At(arr, 0), decode_len_lenlen(At(arr, 0)),
                      data_len(arr, decode_len_lenlen(At(arr, 0))))

\* decode0 after h = decode_len(input)
decode0_checks(input, h) ==
    IF h.err # "none" THEN [err |-> h.err, offset |-> 0, length |-> 0]
    ELSE IF h.data_type # RLP_STRING
    THEN [err |-> "rlp_not_a_string", offset |-> 0, length |-> 0]
    ELSE IF h.length + h.offset > Len(input)
    THEN [err |-> "rlp_payload_exceeds_input", offset |-> 0, length |-> 0]
    ELSE [err |-> "none", offset |-> h.offset, length |-> h.length]

\* decode0(input) -> (offset, length), as [err, offset, length]
decode0(input) == decode0_checks(input, decode_len(input))

\* The RLP_List returned when an assertion failed
NoList(e) == [err |-> e, offset |-> <<>>, length |-> <<>>, data_type |-> <<>>,
              num_fields |-> 0]

\* The mutable locals of the list decoders before the loop
decode1_locals(h) ==
    [err |-> "none", offset |-> h.offset, num_fields |-> 0,
     dec_off |-> <<>>, dec_len |-> <<>>, dec_type |-> <<>>]

\* An iteration of decode1's loop that records offset, length and type also
\* when the data is exhausted (no multiplication by loop_ind): the variant
\* against which the zeroing of the unused slots is tested
decode1_step_unmasked(st, total_len, h) ==
    IF h.err # "none" THEN [st EXCEPT !.err = h.err]
    ELSE [err |-> "none",
          offset |-> st.offset + Ind(st.offset # total_len) * (h.offset + h.length),
          num_fields |-> st.num_fields + Ind(st.offset # total_len),
          dec_off |-> Append(st.dec_off, st.offset + (1 - h.data_type) * h.offset),
          dec_len |-> Append(st.dec_len, h.length + h.data_type * h.offset),
          dec_type |-> Append(st.dec_type, h.data_type)]

\* An iteration of decode1's loop that records every item the way a string
\* is recorded, by its payload (no use of field_type in dec_off and
\* dec_len): the variant against which the recording of nested lists is tested
decode1_step_payload_only(st, total_len, h) ==
    IF h.err # "none" THEN [st EXCEPT !.err = h.err]
    ELSE [err |-> "none",
          offset |-> st.offset + Ind(st.offset # total_len) * (h.offset + h.length),
          num_fields |-> st.num_fields + Ind(st.offset # total_len),
          dec_off |-> Append(st.dec_off, Ind(st.offset # total_len) * (st.offset + h.offset)),
          dec_len |-> Append(st.dec_len, Ind(st.offset # total_len) * h.length),
          dec_type |-> Append(st.dec_type, Ind(st.offset # total_len) * h.data_type)]

\* One iteration of decode1's loop on the locals st (offset, num_fields,
\* dec_off, dec_len, dec_type), h being decode_len of the item header
decode1_step(st, total_len, h) ==
    IF h.err # "none" THEN [st EXCEPT !.err = h.err]
    ELSE [err |-> "none",
          offset |-> st.offset + Ind(st.offset # total_len) * (h.offset + h.length),
          num_fields |-> st.num_fields + Ind(st.offset # total_len),
          dec_off |-> Append(st.dec_off,
              Ind(st.offset # total_len) * (st.offset + (1 - h.data_type) * h.offset)),
          dec_len |-> Append(st.dec_len,
              Ind(st.offset # total_len) * (h.length + h.data_type * h.offset)),
          dec_type |-> Append(st.dec_type, Ind(st.offset # total_len) * h.data_type)]

\* decode1's loop, iterations i .. NUM_FIELDS - 1
RECURSIVE decode1_loop(_, _, _, _, _)
decode1_loop(input, NUM_FIELDS, total_len, i, st) ==
    IF i >= NUM_FIELDS \/ st.err # "none" THEN st
    ELSE decode1_loop(input, NUM_FIELDS, total_len, i + 1,
            decode1_step(st, total_len,
                decode_len(take_dot_drop(input, st.offset, MAX_LEN_IN_BYTES + 1))))

\* A return that omits assert(total_len == offset): the variant against
\* which the exact consumption of the payload is tested
decode1_table_unchecked(total_len, st) ==
    IF st.err # "none" THEN NoList(st.err)
    ELSE [err |-> "none", offset |-> st.dec_off, length |-> st.dec_len,
          data_type |-> st.dec_type, num_fields |-> st.num_fields]

\* The two assertions after the loop and the RLP_List returned
decode1_table(total_len, st) ==
    IF st.err # "none" THEN NoList(st.err)
    ELSE IF total_len # st.offset THEN NoList("rlp_data_not_exhausted")
    ELSE [err |-> "none", offset |-> st.dec_off, length |-> st.dec_len,
          data_type |-> st.dec_type, num_fields |-> st.num_fields]

\* decode1 after h = decode_len(input)
decode1_checks(input, NUM_FIELDS, h) ==
    IF h.err # "none" THEN NoList(h.err)
    ELSE IF h.data_type # RLP_LIST THEN NoList("rlp_not_a_list")
    ELSE IF h.length + h.offset > Len(input) THEN NoList("rlp_payload_exceeds_input")
    ELSE decode1_table(h.length + h.offset,
             decode1_loop(input, NUM_FIELDS, h.length + h.offset, 0, decode1_locals(h)))

\* decode1(input) -> RLP_List<NUM_FIELDS>
decode1(input, NUM_FIELDS) == decode1_checks(input, NUM_FIELDS, decode_len(input))

\* One iteration of decode1_small_lis's loop, header being input[offset]
decode1_small_lis_step(st, total_len, header) ==
    LET loop_ind == Ind(st.offset # total_len)
        single_byte_ind == Ind(header < 128)
        field_off == 1 - single_byte_ind
        field_len == single_byte_ind * 1 + (1 - single_byte_ind) * wrapping_sub(header, 128)
    IN  IF ~(header < 184) THEN [st EXCEPT !.err = "small_list_header_too_big"]
        ELSE [err |-> "none",
              offset |-> st.offset + loop_ind * (field_off + field_len),
              num_fields |-> st.num_fields + loop_ind,
              dec_off |-> Append(st.dec_off, loop_ind * (st.offset + field_off)),
              dec_len |-> Append(st.dec_len, loop_ind * field_len),
              dec_type |-> Append(st.dec_type, loop_ind * RLP_STRING)]

\* decode1_small_lis's loop.  input[offset] is read, and header < 0xb8
\* asserted, in every iteration, also when loop_ind = 0.
RECURSIVE decode1_small_lis_loop(_, _, _, _, _)
decode1_small_lis_loop(input, NUM_FIELDS, total_len, i, st) ==
    IF i >= NUM_FIELDS \/ st.err # "none" THEN st
    ELSE IF st.offset >= Len(input) THEN [st EXCEPT !.err = "index_out_of_bounds"]
    ELSE decode1_small_lis_loop(input, NUM_FIELDS, total_len, i + 1,
            decode1_small_lis_step(st, total_len, At(input, st.offset)))

\* decode1_small_lis after h = decode_len(input)
decode1_small_lis_checks(input, NUM_FIELDS, h) ==
    IF h.err # "none" THEN NoList(h.err)
    ELSE IF h.data_type # RLP_LIST THEN NoList("rlp_not_a_list")
    ELSE IF h.length + h.offset > Len(input) THEN NoList("rlp_payload_exceeds_input")
    ELSE decode1_table(h.length + h.offset,
             decode1_small_lis_loop(input, NUM_FIELDS, h.length + h.offset, 0,
                                    decode1_locals(h)))

\* decode1_small_lis(input) -> RLP_List<NUM_FIELDS>
decode1_small_lis(input, NUM_FIELDS) ==
    decode1_small_lis_checks(input, NUM_FIELDS, decode_len(input))

(***************************************************************************)
(* dep::std::hash::keccak256(input, message_size): the digest of the first *)
(* message_size bytes.  The library primitive is modelled by a stand-in    *)
(* digest of the same shape (32 bytes, a function of exactly the hashed    *)
(* prefix).  s1 is a position-weighted sum modulo the prime 65521, so two  *)
(* prefixes that differ in one byte, or in length only by zero bytes being *)
(* appended, never collide.                                                *)
(***************************************************************************)
RECURSIVE keccak_absorb(_, _, _)
keccak_absorb(input, lo, hi) ==
    IF lo > hi THEN <<0, 0>>
    ELSE IF lo = hi
    THEN <<(lo * (input[lo] + 1)) % 65521,
           ((((lo * lo) % 65497) + 3) * (input[lo] + 7)) % 65497>>
    ELSE LET mid == (lo + hi) \div 2
             l == keccak_absorb(input, lo, mid)
             r == keccak_absorb(input, mid + 1, hi)
         IN  <<(l[1] + r[1]) % 65521, (l[2] + r[2]) % 65497>>

keccak_squeeze(s1, s2, message_size) ==
    [k \in 1..KEY_LENGTH |->
        LET j == k - 1
        IN  CASE j = 0 -> s1 % 256
              [] j = 1 -> s1 \div 256
              [] j = 2 -> s2 % 256
              [] j = 3 -> s2 \div 256
              [] j = 4 -> message_size % 256
              [] j = 5 -> message_size \div 256
              [] OTHER -> (s1 * (j + 3) + s2 * (2 * j + 1) + j * j) % 256]

keccak256(input, message_size) ==
    LET s == keccak_absorb(input, 1, message_size)
    IN  keccak_squeeze(s[1], s[2], message_size)

(***************************************************************************)
(* u64 depth as four 16-bit limbs, least significant first                 *)
(***************************************************************************)
U64(n) == <<n % 65536, n \div 65536, 0, 0>>

U64IsZero(d) == d = <<0, 0, 0, 0>>

\* d - 1 for d # 0
U64Pred(d) ==
    IF d[1] > 0 THEN <<d[1] - 1, d[2], d[3], d[4]>>
    ELSE IF d[2] > 0 THEN <<65535, d[2] - 1, d[3], d[4]>>
    ELSE IF d[3] > 0 THEN <<65535, 65535, d[3] - 1, d[4]>>
    ELSE <<65535, 65535, 65535, d[4] - 1>>

\* d as u8
AsU8(d) == d[1] % 256

\* d as u32, as two limbs
AsU32(d) == <<d[1], d[2]>>

\* whether the u32 product v * MAX_TRIE_NODE_LENGTH overflows:
\* 8073190 = (2^32 - 1) \div 532
U32MulOverflows(v) == v[2] > 123 \/ v[2] * 65536 + v[1] > 8073190

(***************************************************************************)
(* node.nr (src/unnamed/part_001, lines 86-375)                            *)
(***************************************************************************)
\* verify_node_hash after rlp_header = decode_len(node)
verify_node_hash_of(node, hash, rlp_header) ==
    LET node_length == rlp_header.offset + rlp_header.length
        in_range == Ind(node_length > Len(node))
        safe_length == in_range * Len(node) + (1 - in_range) * node_length
    IN  IF rlp_header.err # "none"
        THEN [err |-> rlp_header.err, ok |-> FALSE]
        ELSE [err |-> "none", ok |-> keccak256(node, safe_length) = hash]

\* verify_node_hash(node, hash) -> bool, as [err, ok]; err is set when
\* decode_len aborts.
verify_node_hash(node, hash) == verify_node_hash_of(node, hash, decode_len(node))

\* key_as_nibbles(key)
key_as_nibbles(key) ==
    [k \in 1..(2 * Len(key)) |->
        LET i == (k - 1) \div 2
        IN  byte_to_nibbles(At(key, i))[((k - 1) % 2) + 1]]

\* compact_decode(input, length) -> (nibble, out_length), as
\* [err, nibble, out_length]; MAX_ENC_LEN = Len(input), NIB_LEN given.
compact_decode(input, length, NIB_LEN) ==
    LET MAX_ENC_LEN == Len(input)
        first == byte_to_nibbles(At(input, 0))
        first_nibble == first[1]
        parity == first_nibble % 2
        nibble == [k \in 1..NIB_LEN |->
                     LET i == (k - 1) \div 2
                         prev_nibbles == byte_to_nibbles(At(input, i))
                         cur_nibbles == byte_to_nibbles(At(input, i + 1))
                     IN  IF i >= MAX_ENC_LEN - 1 THEN 0
                         ELSE IF (k - 1) % 2 = 0
                         THEN parity * prev_nibbles[2] + (1 - parity) * cur_nibbles[1]
                         ELSE parity * cur_nibbles[1] + (1 - parity) * cur_nibbles[2]]
        fail(e) == [err |-> e, nibble |-> <<>>, out_length |-> 0]
    IN  IF ~(2 * MAX_ENC_LEN <= NIB_LEN + 2) THEN fail("compact_max_enc_len")
        ELSE IF ~(first_nibble < 4) THEN fail("compact_first_nibble_not_below_4")
        ELSE IF (1 - parity) * first[2] # 0 THEN fail("compact_parity_inconsistent")
        ELSE IF 2 * length + parity < 2 THEN fail("u64_sub_underflow")
        ELSE IF ~(2 * length + parity - 2 <= NIB_LEN) THEN fail("compact_too_many_nibbles")
        ELSE [err |-> "none", nibble |-> nibble, out_length |-> 2 * length + parity - 2]

\* resolve2's checks without the comparison of the decoded nibbles with the
\* key nibbles at the cursor: the variant against which the path check is
\* tested
resolve2_checks_unmatched(node, rlp_list, key, key_ptr, MAX_VALUE_LEN, node_type_nibble, cd) ==
    LET fail(e) == [err |-> e, node_type |-> 0, value |-> <<>>,
                    value_length |-> 0, key_ptr |-> key_ptr]
    IN  IF cd.err # "none" THEN fail(cd.err)
        ELSE IF key_ptr > NIBBLE_LENGTH THEN fail("u64_sub_underflow")
        ELSE IF ~(NIBBLE_LENGTH - key_ptr >= cd.out_length) THEN fail("path_past_64_nibbles")
        ELSE IF ~(At(rlp_list.length, 1) <= MAX_VALUE_LEN) THEN fail("value_longer_than_max")
        ELSE IF ~(At(rlp_list.offset, 1) + MAX_VALUE_LEN <= Len(node))
             THEN fail("value_window_past_node")
        ELSE [err |-> "none",
              node_type |-> Ind(node_type_nibble > 1),
              value |-> SubSeq(node, At(rlp_list.offset, 1) + 1,
                               At(rlp_list.offset, 1) + MAX_VALUE_LEN),
              value_length |-> At(rlp_list.length, 1),
              key_ptr |-> key_ptr + cd.out_length]

\* resolve2 after first_slot = take_dot_drop(node, rlp_list.offset[0]) and
\* cd = compact_decode(first_slot, rlp_list.length[0])
resolve2_checks(node, rlp_list, key, key_ptr, MAX_VALUE_LEN, node_type_nibble, cd) ==
    LET fail(e) == [err |-> e, node_type |-> 0, value |-> <<>>,
                    value_length |-> 0, key_ptr |-> key_ptr]
    IN  IF cd.err # "none" THEN fail(cd.err)
        ELSE IF key_ptr > NIBBLE_LENGTH THEN fail("u64_sub_underflow")
        ELSE IF ~(NIBBLE_LENGTH - key_ptr >= cd.out_length) THEN fail("path_past_64_nibbles")
        ELSE IF \E i \in 0..(NIBBLE_LENGTH - 1) :
                   i < cd.out_length /\ At(cd.nibble, i) # At(key, key_ptr + i)
             THEN fail("path_nibbles_mismatch")
        ELSE IF ~(At(rlp_list.length, 1) <= MAX_VALUE_LEN) THEN fail("value_longer_than_max")
        ELSE IF ~(At(rlp_list.offset, 1) + MAX_VALUE_LEN <= Len(node))
             THEN fail("value_window_past_node")
        ELSE [err |-> "none",
              node_type |-> Ind(node_type_nibble > 1),
              value |-> SubSeq(node, At(rlp_list.offset, 1) + 1,
                               At(rlp_list.offset, 1) + MAX_VALUE_LEN),
              value_length |-> At(rlp_list.length, 1),
              key_ptr |-> key_ptr + cd.out_length]

\* resolve2 after first_slot = take_dot_drop(node, rlp_list.offset[0])
resolve2_slot(node, rlp_list, key, key_ptr, MAX_VALUE_LEN, first_slot) ==
    resolve2_checks(node, rlp_list, key, key_ptr, MAX_VALUE_LEN,
                    At(first_slot, 0) \div 16,
                    compact_decode(first_slot, At(rlp_list.length, 0), NIBBLE_LENGTH))

\* resolve2(node, rlp_list, key, key_ptr) ->
\* (node type, value, value length, new key pointer)
resolve2(node, rlp_list, key, key_ptr, MAX_VALUE_LEN) ==
    IF rlp_list.num_fields # 2
    THEN [err |-> "resolve2_not_two_fields", node_type |-> 0, value |-> <<>>,
          value_length |-> 0, key_ptr |-> key_ptr]
    ELSE resolve2_slot(node, rlp_list, key, key_ptr, MAX_VALUE_LEN,
                       take_dot_drop(node, At(rlp_list.offset, 0), 1 + NIBBLE_LENGTH \div 2))

\* resolve17 without assert(resolved_key_length == KEY_LENGTH): the variant
\* against which the length of the child on the path is tested
resolve17_any_child(node, rlp_list, key, key_ptr) ==
    LET fail(e) == [err |-> e, resolved_key |-> <<>>, resolved_key_length |-> 0,
                    key_ptr |-> key_ptr]
        cur_nibble == At(key, key_ptr)
        resolved_key_length == At(rlp_list.length, cur_nibble)
        nibble_offset == At(rlp_list.offset, cur_nibble)
    IN  IF rlp_list.num_fields # 17 THEN fail("resolve17_not_17_fields")
        ELSE IF \E i \in 0..15 :
                   At(rlp_list.length, i) * (At(rlp_list.length, i) - KEY_LENGTH) # 0
             THEN fail("branch_slot_length_not_0_or_32")
        ELSE IF At(rlp_list.length, 16) # 0 THEN fail("branch_17th_slot_not_empty")
        ELSE IF key_ptr >= Len(key) THEN fail("index_out_of_bounds")
        ELSE IF ~(key_ptr < NIBBLE_LENGTH) THEN fail("branch_key_exhausted")
        ELSE IF nibble_offset + KEY_LENGTH > Len(node) THEN fail("index_out_of_bounds")
        ELSE [err |-> "none",
              resolved_key |-> SubSeq(node, nibble_offset + 1, nibble_offset + KEY_LENGTH),
              resolved_key_length |-> resolved_key_length,
              key_ptr |-> key_ptr + 1]

\* resolve17 without the loop over the first 16 slots: the variant against
\* which the branch-slot-length assertion is tested
resolve17_unchecked_slots(node, rlp_list, key, key_ptr) ==
    LET fail(e) == [err |-> e, resolved_key |-> <<>>, resolved_key_length |-> 0,
                    key_ptr |-> key_ptr]
        cur_nibble == At(key, key_ptr)
        resolved_key_length == At(rlp_list.length, cur_nibble)
        nibble_offset == At(rlp_list.offset, cur_nibble)
    IN  IF rlp_list.num_fields # 17 THEN fail("resolve17_not_17_fields")
        ELSE IF At(rlp_list.length, 16) # 0 THEN fail("branch_17th_slot_not_empty")
        ELSE IF key_ptr >= Len(key) THEN fail("index_out_of_bounds")
        ELSE IF resolved_key_length # KEY_LENGTH THEN fail("branch_child_not_32_bytes")
        ELSE IF ~(key_ptr < NIBBLE_LENGTH) THEN fail("branch_key_exhausted")
        ELSE IF nibble_offset + KEY_LENGTH > Len(node) THEN fail("index_out_of_bounds")
        ELSE [err |-> "none",
              resolved_key |-> SubSeq(node, nibble_offset + 1, nibble_offset + KEY_LENGTH),
              resolved_key_length |-> resolved_key_length,
              key_ptr |-> key_ptr + 1]

\* resolve17(node, rlp_list, key, key_ptr) ->
\* (extracted hash, its length, new key pointer)
resolve17(node, rlp_list, key, key_ptr) ==
    LET fail(e) == [err |-> e, resolved_key |-> <<>>, resolved_key_length |-> 0,
                    key_ptr |-> key_ptr]
        cur_nibble == At(key, key_ptr)
        resolved_key_length == At(rlp_list.length, cur_nibble)
        nibble_offset == At(rlp_list.offset, cur_nibble)
    IN  IF rlp_list.num_fields # 17 THEN fail("resolve17_not_17_fields")
        ELSE IF \E i \in 0..15 :
                   At(rlp_list.length, i) * (At(rlp_list.length, i) - KEY_LENGTH) # 0
             THEN fail("branch_slot_length_not_0_or_32")
        ELSE IF At(rlp_list.length, 16) # 0 THEN fail("branch_17th_slot_not_empty")
        ELSE IF key_ptr >= Len(key) THEN fail("index_out_of_bounds")
        ELSE IF resolved_key_length # KEY_LENGTH THEN fail("branch_child_not_32_bytes")
        ELSE IF ~(key_ptr < NIBBLE_LENGTH) THEN fail("branch_key_exhausted")
        ELSE IF nibble_offset + KEY_LENGTH > Len(node) THEN fail("index_out_of_bounds")
        ELSE [err |-> "none",
              resolved_key |-> SubSeq(node, nibble_offset + 1, nibble_offset + KEY_LENGTH),
              resolved_key_length |-> resolved_key_length,
              key_ptr |-> key_ptr + 1]

\* A result without the closing assertion
\* (node_type == LEAF) | (resolved_key_length == KEY_LENGTH): the variant
\* against which the length of an extension's child reference is tested
resolve_nibble32_result_any_length(key_ptr, r, node_type, resolved_key, resolved_key_length) ==
    IF r.err # "none"
    THEN [err |-> r.err, node_type |-> 0, resolved_key |-> <<>>, key_ptr |-> key_ptr]
    ELSE [err |-> "none", node_type |-> node_type, resolved_key |-> resolved_key,
          key_ptr |-> r.key_ptr]

\* resolve_nibble32's closing assertion and result; r is what the resolver
\* of the node gave, node_type and resolved_key_length the locals it set
resolve_nibble32_result(key_ptr, r, node_type, resolved_key, resolved_key_length) ==
    IF r.err # "none"
    THEN [err |-> r.err, node_type |-> 0, resolved_key |-> <<>>, key_ptr |-> key_ptr]
    ELSE IF ~(node_type = LEAF \/ resolved_key_length = KEY_LENGTH)
    THEN [err |-> "resolved_key_not_32_bytes", node_type |-> 0, resolved_key |-> <<>>,
          key_ptr |-> key_ptr]
    ELSE [err |-> "none", node_type |-> node_type, resolved_key |-> resolved_key,
          key_ptr |-> r.key_ptr]

\* An if-branch that keeps node_type = BRANCH instead of taking resolve2's
\* node type: the variant against which the returned node type is tested
resolve_nibble32_extension_untyped(key_ptr, r2) ==
    resolve_nibble32_result(key_ptr, r2, BRANCH, r2.value, r2.value_length)

\* The if-branch of resolve_nibble32 (num_fields = 2), r2 being resolve2's result
resolve_nibble32_extension(key_ptr, r2) ==
    resolve_nibble32_result(key_ptr, r2, r2.node_type, r2.value, r2.value_length)

\* The else-branch of resolve_nibble32, r17 being resolve17's result
resolve_nibble32_branch(key_ptr, r17) ==
    resolve_nibble32_result(key_ptr, r17, BRANCH, r17.resolved_key, r17.resolved_key_length)

\* resolve_nibble32 after rlp_list = decode1_small_lis(node)
resolve_nibble32_dispatch(key, key_ptr, node, rlp_list) ==
    IF rlp_list.err # "none"
    THEN [err |-> rlp_list.err, node_type |-> 0, resolved_key |-> <<>>, key_ptr |-> key_ptr]
    ELSE IF rlp_list.num_fields = 2
    THEN resolve_nibble32_extension(key_ptr, resolve2(node, rlp_list, key, key_ptr, KEY_LENGTH))
    ELSE IF At(rlp_list.length, 16) # 0
    THEN [err |-> "branch_17th_slot_not_empty", node_type |-> 0, resolved_key |-> <<>>,
          key_ptr |-> key_ptr]
    ELSE resolve_nibble32_branch(key_ptr, resolve17(node, rlp_list, key, key_ptr))

\* resolve_nibble32(key, key_ptr, node) -> (node type, extracted hash, new key pointer)
resolve_nibble32(key, key_ptr, node) ==
    resolve_nibble32_dispatch(key, key_ptr, node, decode1_small_lis(node, MAX_NUM_FIELDS))

\* verify_internal_node once the node is copied, its hash compared (vh) and
\* its nibble(s) resolved (rn): the two assertions and the two updates
verify_internal_node_checks(extracted_hash, key_ptr, in_range, vh, rn) ==
    LET fail(e) == [err |-> e, extracted_hash |-> extracted_hash, key_ptr |-> key_ptr,
                    in_range |-> FALSE]
    IN  IF vh.err # "none" THEN fail(vh.err)
        ELSE IF ~(~in_range \/ vh.ok) THEN fail("internal_node_hash_mismatch")
        ELSE IF rn.err # "none" THEN fail(rn.err)
        ELSE IF ~(~in_range \/ rn.node_type # LEAF) THEN fail("internal_node_is_leaf")
        ELSE [err |-> "none",
              extracted_hash |-> IF in_range THEN rn.resolved_key ELSE extracted_hash,
              key_ptr |-> IF in_range THEN rn.key_ptr ELSE key_ptr,
              in_range |-> in_range]

\* verify_internal_node after cp = memcpy(&mut node, path, cur_depth_or_0 * 532)
verify_internal_node_copy(extracted_hash, key_ptr, key_nibbles, in_range, cp) ==
    IF cp.err # "none"
    THEN [err |-> cp.err, extracted_hash |-> extracted_hash, key_ptr |-> key_ptr,
          in_range |-> FALSE]
    ELSE verify_internal_node_checks(extracted_hash, key_ptr, in_range,
             verify_node_hash(cp.out, extracted_hash),
             resolve_nibble32(key_nibbles, IF in_range THEN key_ptr ELSE 0, cp.out))

\* let in_range = (cur_depth as u8) < (depth - 1) as u8, for depth # 0
in_range_of(depth, cur_depth) == (cur_depth % 256) < AsU8(U64Pred(depth))

\* verify_internal_node(&mut extracted_hash, &mut key_ptr, key_nibbles, path,
\* depth, cur_depth), as [err, extracted_hash, key_ptr, in_range]: the two
\* mutable references after the call.
verify_internal_node(extracted_hash, key_ptr, key_nibbles, path, depth, cur_depth) ==
    IF U64IsZero(depth)
    THEN [err |-> "u64_sub_underflow", extracted_hash |-> extracted_hash,
          key_ptr |-> key_ptr, in_range |-> FALSE]
    ELSE verify_internal_node_copy(extracted_hash, key_ptr, key_nibbles,
             in_range_of(depth, cur_depth),
             memcpy(MAX_TRIE_NODE_LENGTH, path,
                    (IF in_range_of(depth, cur_depth) THEN cur_depth ELSE 0)
                        * MAX_TRIE_NODE_LENGTH))

(***************************************************************************)
(* storage_proof.nr and state_proof.nr (src/unnamed/part_001, lines 1-84): *)
(* the terminal step                                                       *)
(***************************************************************************)
\* The window copy shared by both leaf verifiers:
\* memcpy(&mut leaf_node, self.proof, (self.depth - 1) as u32 * MAX_TRIE_NODE_LENGTH)
leaf_memcpy(proof, depth) ==
    LET v == AsU32(U64Pred(depth))
        w == v[2] * 65536 + v[1]
    IN  IF U64IsZero(depth) THEN [err |-> "u64_sub_underflow", out |-> <<>>]
        ELSE IF U32MulOverflows(v) THEN [err |-> "u32_mul_overflow", out |-> <<>>]
        ELSE IF w >= proof.len THEN [err |-> "index_out_of_bounds", out |-> <<>>]
        ELSE memcpy(MAX_TRIE_NODE_LENGTH, proof, w * MAX_TRIE_NODE_LENGTH)

\* verify_storage_leaf_node, lines 83-85: d0 = decode0(extracted_value), then
\* the two value assertions
storage_leaf_value_checks(bv, r2, d0) ==
    IF d0.err # "none" THEN d0.err
    ELSE IF d0.length # bv.value_length THEN "value_length_mismatch"
    ELSE assert_subarray(bv.value, r2.value, bv.value_length, d0.offset)

\* Assertions on resolve2's result that omit
\* assert(terminal_key_ptr == 2 * key_len): the variant against which the
\* final position of the nibble cursor is tested
storage_leaf_resolved_any_cursor(bv, key_len, r2) ==
    IF r2.err # "none" THEN r2.err
    ELSE IF r2.node_type # LEAF THEN "terminal_node_not_leaf"
    ELSE IF ~(r2.value_length <= MAX_STORAGE_VALUE_LENGTH + 1) THEN "extracted_value_too_long"
    ELSE storage_leaf_value_checks(bv, r2, decode0(r2.value))

\* verify_storage_leaf_node, lines 77-80: the assertions on resolve2's result
storage_leaf_resolved(bv, key_len, r2) ==
    IF r2.err # "none" THEN r2.err
    ELSE IF r2.node_type # LEAF THEN "terminal_node_not_leaf"
    ELSE IF ~(r2.value_length <= MAX_STORAGE_VALUE_LENGTH + 1) THEN "extracted_value_too_long"
    ELSE IF r2.key_ptr # 2 * key_len THEN "key_not_exhausted"
    ELSE storage_leaf_value_checks(bv, r2, decode0(r2.value))

\* verify_storage_leaf_node, lines 71-76, on the copied leaf_node
storage_leaf_node_checks(bv, leaf_node, vh, rlp_list, key_len, key_ptr, key_nibbles) ==
    IF vh.err # "none" THEN vh.err
    ELSE IF ~vh.ok THEN "leaf_node_hash_mismatch"
    ELSE IF rlp_list.err # "none" THEN rlp_list.err
    ELSE storage_leaf_resolved(bv, key_len,
             resolve2(leaf_node, rlp_list, key_nibbles, key_ptr,
                      MAX_STORAGE_VALUE_LENGTH + 1))

storage_leaf_node_copy(bv, cp, hash, key_len, key_ptr, key_nibbles) ==
    IF cp.err # "none" THEN cp.err
    ELSE storage_leaf_node_checks(bv, cp.out, verify_node_hash(cp.out, hash),
                                  decode1_small_lis(cp.out, 2), key_len, key_ptr,
                                  key_nibbles)

\* verify_storage_leaf_node(self, hash, key_len, key_ptr, key_nibbles): the
\* assertion that failed, or "none"
verify_storage_leaf_node(proof, depth, value_in, hash, key_len, key_ptr, key_nibbles) ==
    storage_leaf_node_copy(byte_value(value_in), leaf_memcpy(proof, depth), hash,
                           key_len, key_ptr, key_nibbles)

\* A terminal step that omits assert(extracted_value[0] >= 0xc0): the variant
\* against which the state value binding is tested
state_leaf_value_checks_untagged(bv, r2) ==
    IF r2.value_length # bv.value_length THEN "value_length_mismatch"
    ELSE assert_subarray(bv.value, r2.value, bv.value_length, 0)

\* verify_state_leaf_node, lines 79-82: the assertions on the extracted value
state_leaf_value_checks(bv, r2) ==
    IF ~(At(r2.value, 0) >= 192) THEN "account_not_a_list"
    ELSE IF r2.value_length # bv.value_length THEN "value_length_mismatch"
    ELSE assert_subarray(bv.value, r2.value, bv.value_length, 0)

\* verify_state_leaf_node, lines 74-77: the assertions on resolve2's result
state_leaf_resolved(bv, MAX_VALUE_LEN, key_len, r2) ==
    IF r2.err # "none" THEN r2.err
    ELSE IF r2.node_type # LEAF THEN "terminal_node_not_leaf"
    ELSE IF ~(r2.value_length <= MAX_VALUE_LEN) THEN "extracted_value_too_long"
    ELSE IF r2.key_ptr # 2 * key_len THEN "key_not_exhausted"
    ELSE state_leaf_value_checks(bv, r2)

\* verify_state_leaf_node, lines 68-73, on the copied leaf_node
state_leaf_node_checks(bv, MAX_VALUE_LEN, leaf_node, vh, rlp_list, key_len, key_ptr, key_nibbles) ==
    IF vh.err # "none" THEN vh.err
    ELSE IF ~vh.ok THEN "leaf_node_hash_mismatch"
    ELSE IF rlp_list.err # "none" THEN rlp_list.err
    ELSE state_leaf_resolved(bv, MAX_VALUE_LEN, key_len,
             resolve2(leaf_node, rlp_list, key_nibbles, key_ptr, MAX_ACCOUNT_STATE_LENGTH))

state_leaf_node_copy(bv, MAX_VALUE_LEN, cp, hash, key_len, key_ptr, key_nibbles) ==
    IF cp.err # "none" THEN cp.err
    ELSE state_leaf_node_checks(bv, MAX_VALUE_LEN, cp.out, verify_node_hash(cp.out, hash),
                                decode1(cp.out, 2), key_len, key_ptr, key_nibbles)

\* verify_state_leaf_node(self, extracted_hash, key_len, key_ptr, key_nibbles);
\* MAX_VALUE_LEN is the length of self.value.
verify_state_leaf_node(proof, depth, value_in, hash, key_len, key_ptr, key_nibbles) ==
    state_leaf_node_copy(byte_value(value_in), Len(value_in), leaf_memcpy(proof, depth),
                         hash, key_len, key_ptr, key_nibbles)

(***************************************************************************)
(* The callers' side: the proofs a witness generator hands to the verifier *)
(* (generateWitness.ts pads every eth_getProof node on the right with      *)
(* zeros to MAX_TRIE_NODE_LENGTH bytes and concatenates them), and the     *)
(* ways a caller can tamper with an input.                                 *)
(***************************************************************************)
\* Bounds of the inputs
MaxInternal == 2
MaxExtraWindows == 1
NumKeys == 2
NumValues == 3

RECURSIVE Concat(_, _, _)
Concat(f, lo, hi) == IF lo > hi THEN <<>> ELSE f[lo] \o Concat(f, lo + 1, hi)

\* RLP encoding of a byte string and of a list payload
RlpStr(b) ==
    IF Len(b) = 1 /\ b[1] < 128 THEN b
    ELSE IF Len(b) <= 55 THEN <<128 + Len(b)>> \o b
    ELSE IF Len(b) <= 255 THEN <<184, Len(b)>> \o b
    ELSE <<185, Len(b) \div 256, Len(b) % 256>> \o b

RlpList(payload) ==
    IF Len(payload) <= 55 THEN <<192 + Len(payload)>> \o payload
    ELSE IF Len(payload) <= 255 THEN <<248, Len(payload)>> \o payload
    ELSE <<249, Len(payload) \div 256, Len(payload) % 256>> \o payload

\* Hex-prefix encoding of a nibble path
HexPrefix(nibs, isLeaf) ==
    LET flag == IF isLeaf THEN 2 ELSE 0
        n == Len(nibs)
    IN  IF n % 2 = 1
        THEN <<16 * (flag + 1) + nibs[1]>>
                \o [k \in 1..((n - 1) \div 2) |-> 16 * nibs[2 * k] + nibs[2 * k + 1]]
        ELSE <<16 * flag>>
                \o [k \in 1..(n \div 2) |-> 16 * nibs[2 * k - 1] + nibs[2 * k]]

PadNode(node) == node \o Zeros(MAX_TRIE_NODE_LENGTH - Len(node))

NodeDigest(node) == keccak256(node, Len(node))

\* The hash of some sibling subtree in slot s of a full branch node
SiblingHash(s) == [k \in 1..KEY_LENGTH |-> (17 * s + 3 * k + 1) % 256]

BranchNode(slot) ==
    RlpList(Concat([s \in 1..16 |-> RlpStr(slot[s - 1])], 1, 16) \o <<128>>)

\* Node kinds of a path: "B" a branch with one child, "F" a branch with 16
\* children, "E0"/"E1"/"E2" an extension of no/one/two nibbles (no trie
\* holds an extension without nibbles; a prover can write one)
NibblesUsed(t) == IF t = "E2" THEN 2 ELSE IF t = "E0" THEN 0 ELSE 1

\* The nodes of the path from level k (1-based) down to the leaf
RECURSIVE BuildFrom(_, _, _, _, _)
BuildFrom(nibs, shape, k, ptr, leafField) ==
    IF k > Len(shape)
    THEN <<RlpList(RlpStr(HexPrefix(SubSeq(nibs, ptr + 1, Len(nibs)), TRUE)) \o leafField)>>
    ELSE LET t == shape[k]
             rest == BuildFrom(nibs, shape, k + 1, ptr + NibblesUsed(t), leafField)
             child == NodeDigest(rest[1])
             node == IF t \in {"E0", "E1", "E2"}
                     THEN RlpList(RlpStr(HexPrefix(SubSeq(nibs, ptr + 1, ptr + NibblesUsed(t)),
                                                  FALSE)) \o RlpStr(child))
                     ELSE BranchNode([s \in 0..15 |->
                              IF s = nibs[ptr + 1] THEN child
                              ELSE IF t = "F" THEN SiblingHash(s) ELSE <<>>])
         IN  <<node>> \o rest

\* Two families of paths with n internal nodes
ShapeOf(pattern, n) ==
    [k \in 1..n |->
        IF pattern = 1 THEN (IF k % 2 = 1 THEN "B" ELSE "E2")
        ELSE (IF k % 2 = 1 THEN "E1" ELSE "F")]

KeyOf(kind, k) ==
    [j \in 1..(IF kind = "storage" THEN 32 ELSE 20) |-> (k * 37 + j * 11) % 256]

\* The significant bytes of the v-th value: a storage word of 1, 32, 2, ...
\* bytes; an account record (an RLP list) of 3, 70, 1, ... bytes
SigBytes(kind, v) ==
    IF kind = "storage"
    THEN LET n == CASE v = 1 -> 1 [] v = 2 -> 32 [] v = 3 -> 2 [] OTHER -> v
         IN  [j \in 1..n |-> ((j * 7 + v) % 255) + 1]
    ELSE CASE v = 1 -> <<194, 1, 2>>
           [] v = 2 -> RlpList(<<1, 128>> \o RlpStr(SiblingHash(1)) \o RlpStr(SiblingHash(2)))
           [] v = 3 -> <<192>>
           [] OTHER -> RlpList([j \in 1..v |-> j])

ValueLen(kind) ==
    IF kind = "storage" THEN MAX_STORAGE_VALUE_LENGTH ELSE MAX_ACCOUNT_STATE_LENGTH

LeftPad(b, n) == Zeros(n - Len(b)) \o b

\* The second field of the leaf: the RLP of the storage word, or the account
\* record, as a string item
LeafField(kind, sig) ==
    IF kind = "storage" THEN RlpStr(RlpStr(sig)) ELSE RlpStr(sig)

\* The TrieProof and root for the given key and path nodes, in a buffer of
\* Len(nodes) + extra windows; `after` are the bytes that follow the leaf's
\* frame in its window (zeros when the witness generator pads).  wf: the
\* proof is a well-formed one and value, root and depth are the true ones.
ProofOf(kind, key, nodes, valueBuf, extra, after, wf) ==
    [kind |-> kind,
     key |-> key,
     proof |-> Bytes(Concat([w \in 1..Len(nodes) |->
                                IF w = Len(nodes) THEN PadNode(nodes[w] \o after)
                                ELSE PadNode(nodes[w])], 1, Len(nodes))
                        \o Zeros(extra * MAX_TRIE_NODE_LENGTH)),
     depth |-> U64(Len(nodes)),
     value |-> valueBuf,
     root |-> NodeDigest(nodes[1]),
     wf |-> wf]

\* The same for key k, a path of the given shape and a leaf whose second
\* item is leafItem
MakeProof(kind, k, shape, leafItem, valueBuf, extra, after, wf) ==
    ProofOf(kind, KeyOf(kind, k),
            BuildFrom(key_as_nibbles(keccak256(KeyOf(kind, k), Len(KeyOf(kind, k)))),
                      shape, 1, 0, leafItem),
            valueBuf, extra, after, wf)

MakeInput(kind, k, shape, v, extra) ==
    LET sig == SigBytes(kind, v)
    IN  MakeProof(kind, k, shape, LeafField(kind, sig), LeftPad(sig, ValueLen(kind)),
                  extra, <<>>, TRUE)

Inputs ==
    {MakeInput(kind, k, ShapeOf(pattern, n), v, extra) :
        kind \in {"storage", "state"}, k \in 1..NumKeys, pattern \in 1..2,
        n \in 0..MaxInternal, v \in 1..NumValues, extra \in 0..MaxExtraWindows}

\* Proofs of tries nobody's eth_getProof returns: the leaf's second field is
\* not the canonical RLP of a storage word / not an account list.
\*   storage, field 0x82 0xAA: a string header announcing 2 bytes in a field
\*     that holds 1; offered with the value 0xAA00
\*   storage, field 0xa0: a string header announcing 32 bytes in a field that
\*     holds none; offered with the 32 bytes the prover wrote behind the frame
\*   state, field 0xc5 0x01: a list header announcing 5 bytes in a field of 2
\*   state, field 0x82 0x01 0x02: a string, not a list
ForgedValue == [j \in 1..KEY_LENGTH |-> 200 + j]

Forged ==
    {MakeProof("storage", 1, ShapeOf(1, n), RlpStr(<<130, 170>>),
               LeftPad(<<170, 0>>, MAX_STORAGE_VALUE_LENGTH), 0, <<>>, FALSE) : n \in 0..1}
    \cup
    {MakeProof("storage", 1, ShapeOf(1, n), RlpStr(<<160>>),
               ForgedValue, 0, ForgedValue, FALSE) : n \in 0..1}
    \cup
    {MakeProof("state", 1, ShapeOf(1, n), RlpStr(<<197, 1>>),
               LeftPad(<<197, 1>>, MAX_ACCOUNT_STATE_LENGTH), 0, <<>>, FALSE) : n \in 0..1}
    \cup
    {MakeProof("state", 1, ShapeOf(1, n), RlpStr(<<130, 1, 2>>),
               LeftPad(<<130, 1, 2>>, MAX_ACCOUNT_STATE_LENGTH), 0, <<>>, FALSE) : n \in 0..1}

\* A single leaf whose path holds only the first 62 nibbles of the hashed
\* key: every hash and every nibble comparison succeeds, the path ends two
\* nibbles early
ShortPath ==
    {ProofOf(kind, KeyOf(kind, 1),
             BuildFrom(SubSeq(key_as_nibbles(keccak256(KeyOf(kind, 1), Len(KeyOf(kind, 1)))),
                              1, NIBBLE_LENGTH - 2),
                       <<>>, 1, 0, LeafField(kind, SigBytes(kind, 1))),
             LeftPad(SigBytes(kind, 1), ValueLen(kind)), 0, <<>>, FALSE) :
        kind \in {"storage", "state"}}

\* 2^32 + d, for d < 2^32
Plus2To32(d) == <<d[1], d[2], (d[3] + 1) % 65536, d[4]>>

U64Succ(d) ==
    IF d[1] < 65535 THEN <<d[1] + 1, d[2], d[3], d[4]>>
    ELSE IF d[2] < 65535 THEN <<0, d[2] + 1, d[3], d[4]>>
    ELSE IF d[3] < 65535 THEN <<0, 0, d[3] + 1, d[4]>>
    ELSE <<0, 0, 0, (d[4] + 1) % 65536>>

\* A window of MAX_TRIE_NODE_LENGTH bytes b
Filled(b) == [p \in 1..MAX_TRIE_NODE_LENGTH |-> b]

\* inp offered with depth 2^32 + depth in a buffer with two more windows
\* that hold arbitrary bytes
WrapDepth(inp) ==
    [inp EXCEPT !.proof = Bytes(inp.proof.at \o Filled(161) \o Filled(178)),
                !.depth = Plus2To32(inp.depth),
                !.wf = FALSE]

\* A single-leaf trie offered with depth 2^32 + 1 in a buffer of three windows
Wrapped ==
    {WrapDepth(MakeInput(kind, 1, <<>>, v, 0)) : kind \in {"storage", "state"}, v \in {1, 3}}

\* A buffer of WideWindows windows: the root and the leaf of a three-node
\* path in windows 0 and 1, its middle node in window 256, offered with
\* depth 2
WideWindows == 258

Widen(inp) ==
    [inp EXCEPT !.proof =
                    [len |-> WideWindows * MAX_TRIE_NODE_LENGTH,
                     at |-> [p \in {w * MAX_TRIE_NODE_LENGTH + o :
                                       w \in {0, 1, 256}, o \in 1..MAX_TRIE_NODE_LENGTH} |->
                               LET w == (p - 1) \div MAX_TRIE_NODE_LENGTH
                                   o == ((p - 1) % MAX_TRIE_NODE_LENGTH) + 1
                               IN  IF w = 0 THEN inp.proof.at[o]
                                   ELSE IF w = 1
                                        THEN inp.proof.at[2 * MAX_TRIE_NODE_LENGTH + o]
                                        ELSE inp.proof.at[MAX_TRIE_NODE_LENGTH + o]]],
                !.depth = U64(2),
                !.wf = FALSE]

WideInputs ==
    {Widen(MakeInput(kind, 1, ShapeOf(pattern, 2), 1, 0)) :
        kind \in {"storage", "state"}, pattern \in 1..2}

InputsOf(fam) ==
    CASE fam = "value" -> Inputs \cup Forged \cup ShortPath
      [] fam = "tamper" -> Inputs \cup Wrapped
      [] fam = "wide" -> WideInputs

(***************************************************************************)
(* State.  One call of verify_storage_root / verify_state_root, one window *)
(* per step, followed by a second call on a changed copy of the input.     *)
(***************************************************************************)
VARIABLES
    family,          \* which inputs and which changes this specification draws
    wellformed,      \* the first input is a well-formed proof with true root and value
    kind,            \* "storage": verify_storage_root, "state": verify_state_root
    key, proof, depth, value,    \* self: TrieProof (depth as u64 limbs)
    root,            \* storage_root / state_root
    pc,              \* "call", "loop", "returned", "aborted"
    i,               \* the loop index of the driver
    key_nibbles, key_ptr, extracted_hash,   \* the driver's locals
    result,          \* the bool returned, "true" or "false", or "no_value"
    err,             \* the assertion that aborted the call, or "none"
    trace,           \* history: the hash checks made on in-range windows
    call,            \* 1: the first call, 2: the call on the changed input
    first,           \* the first call: its depth, outcome and history
    tamper,          \* how the second input was derived from the first
    op,              \* the function a stand-alone call applies, or "verify_root"
    args,            \* the arguments of the stand-alone call
    ret              \* what the stand-alone call returned

vars == <<family, wellformed, kind, key, proof, depth, value, root, pc, i, key_nibbles,
          key_ptr, extracted_hash, result, err, trace, call, first, tamper,
          op, args, ret>>

PROOF_LEN == proof.len

NoTamper == [t |-> "none", pos |-> 0, val |-> 0, d |-> U64(0), perm |-> <<>>,
             how |-> "none", rehash |-> FALSE]

\* The state before the first call on the input inp; gen is what the input
\* was built from, for the families that rebuild it
InitFrom(fam, inp, gen) ==
    /\ family = fam
    /\ kind = inp.kind
    /\ key = inp.key
    /\ proof = inp.proof
    /\ depth = inp.depth
    /\ value = inp.value
    /\ root = inp.root
    /\ wellformed = inp.wf
    /\ pc = "call"
    /\ i = 0
    /\ key_nibbles = <<>>
    /\ key_ptr = 0
    /\ extracted_hash = <<>>
    /\ result = "no_value"
    /\ err = "none"
    /\ trace = <<>>
    /\ call = 1
    /\ first = [err |-> "pending", depth |-> U64(0), trace |-> <<>>]
    /\ tamper = NoTamper
    /\ op = "verify_root"
    /\ args = gen
    /\ ret = <<>>

InitOf(fam) == \E inp \in InputsOf(fam) : InitFrom(fam, inp, <<>>)

\* verify_storage_root / verify_state_root up to the loop: the locals after
\* the PROOF_LEN assertion and the hashing of the key
verify_root_entry(self_key, path, a_root) ==
    IF path.len % MAX_TRIE_NODE_LENGTH # 0
    THEN [err |-> "proof_len_not_multiple_of_node_length",
          key_nibbles |-> <<>>, key_ptr |-> 0, extracted_hash |-> a_root]
    ELSE [err |-> "none",
          key_nibbles |-> key_as_nibbles(keccak256(self_key, Len(self_key))),
          key_ptr |-> 0,
          extracted_hash |-> a_root]

\* The number of iterations of for i in 0..(path.len() / MAX_TRIE_NODE_LENGTH - 1)
loop_count(path) == path.len \div MAX_TRIE_NODE_LENGTH - 1

\* A driver that hands back `false` when the terminal step failed, instead
\* of aborting: the variant against which the return contract is tested
verify_root_return_false(e) ==
    IF e = "none" THEN [pc |-> "returned", result |-> "true", err |-> "none"]
    ELSE [pc |-> "returned", result |-> "false", err |-> e]

\* What a call hands back once the terminal step ended with e: `true` is
\* reached only when no assertion failed
verify_root_return(e) ==
    IF e = "none" THEN [pc |-> "returned", result |-> "true", err |-> "none"]
    ELSE [pc |-> "aborted", result |-> "no_value", err |-> e]

Enter ==
    /\ pc = "call"
    /\ LET r == verify_root_entry(key, proof, root)
       IN  /\ key_nibbles' = r.key_nibbles
           /\ key_ptr' = r.key_ptr
           /\ extracted_hash' = r.extracted_hash
           /\ err' = r.err
           /\ pc' = IF r.err = "none" THEN "loop" ELSE "aborted"
    /\ i' = 0
    /\ UNCHANGED <<op, args, ret, family, wellformed, kind, key, proof, depth, value, root, result,
                   trace, call, first, tamper>>

VerifyInternalNode ==
    /\ pc = "loop"
    /\ i < loop_count(proof)
    /\ LET r == verify_internal_node(extracted_hash, key_ptr, key_nibbles, proof, depth, i)
       IN  /\ extracted_hash' = r.extracted_hash
           /\ key_ptr' = r.key_ptr
           /\ err' = r.err
           /\ pc' = IF r.err = "none" THEN "loop" ELSE "aborted"
           /\ trace' = IF r.err = "none" /\ r.in_range
                       THEN Append(trace, [win |-> i, expected |-> extracted_hash,
                                           out |-> r.extracted_hash,
                                           ptr |-> r.key_ptr, leaf |-> FALSE])
                       ELSE trace
    /\ i' = i + 1
    /\ UNCHANGED <<op, args, ret, family, wellformed, kind, key, proof, depth, value, root,
                   key_nibbles, result, call, first, tamper>>

\* The window the terminal step reads, as an index, when it is inside proof
LeafWindow == LET v == AsU32(U64Pred(depth)) IN v[2] * 65536 + v[1]

VerifyStorageLeafNode ==
    /\ pc = "loop"
    /\ i = loop_count(proof)
    /\ kind = "storage"
    /\ LET e == verify_storage_leaf_node(proof, depth, value, extracted_hash,
                                         KEY_LENGTH, key_ptr, key_nibbles)
           r == verify_root_return(e)
       IN  /\ pc' = r.pc
           /\ result' = r.result
           /\ err' = r.err
           /\ trace' = IF e = "none"
                       THEN Append(trace, [win |-> LeafWindow, expected |-> extracted_hash,
                                           out |-> <<>>, ptr |-> 2 * KEY_LENGTH,
                                           leaf |-> TRUE])
                       ELSE trace
    /\ UNCHANGED <<op, args, ret, family, wellformed, kind, key, proof, depth, value, root, i,
                   key_nibbles, key_ptr, extracted_hash, call, first, tamper>>

VerifyStateLeafNode ==
    /\ pc = "loop"
    /\ i = loop_count(proof)
    /\ kind = "state"
    /\ LET e == verify_state_leaf_node(proof, depth, value, extracted_hash,
                                       KEY_LENGTH, key_ptr, key_nibbles)
           r == verify_root_return(e)
       IN  /\ pc' = r.pc
           /\ result' = r.result
           /\ err' = r.err
           /\ trace' = IF e = "none"
                       THEN Append(trace, [win |-> LeafWindow, expected |-> extracted_hash,
                                           out |-> <<>>, ptr |-> 2 * KEY_LENGTH,
                                           leaf |-> TRUE])
                       ELSE trace
    /\ UNCHANGED <<op, args, ret, family, wellformed, kind, key, proof, depth, value, root, i,
                   key_nibbles, key_ptr, extracted_hash, call, first, tamper>>

Finished == pc \in {"returned", "aborted"}

(***************************************************************************)
(* The caller's second input: the first one with one thing changed         *)
(***************************************************************************)
Window(p, w) == [k \in 1..MAX_TRIE_NODE_LENGTH |-> ByteAt(p, w * MAX_TRIE_NODE_LENGTH + k - 1)]

\* The number of bytes of window w that verify_node_hash hashes
FrameLen(p, w) ==
    LET h == decode_len(Window(p, w))
    IN  IF h.err # "none" \/ h.offset + h.length > MAX_TRIE_NODE_LENGTH
        THEN MAX_TRIE_NODE_LENGTH
        ELSE h.offset + h.length

Bump(b) == (b + 1) % 256

ByteTamper(t, pos, old) == [NoTamper EXCEPT !.t = t, !.pos = pos, !.val = Bump(old)]

\* Positions of window w worth changing: its header byte, a payload byte, the
\* last byte of its frame and the first byte behind its frame
WindowPositions(p, w) ==
    LET n == FrameLen(p, w)
    IN  {w * MAX_TRIE_NODE_LENGTH + o : o \in {1, 2, n, n + 1} \cap 1..MAX_TRIE_NODE_LENGTH}

Permuted(p, perm) ==
    Bytes([q \in 1..p.len |->
              ByteAt(p, (perm[((q - 1) \div MAX_TRIE_NODE_LENGTH) + 1] - 1)
                           * MAX_TRIE_NODE_LENGTH
                        + ((q - 1) % MAX_TRIE_NODE_LENGTH))])

\* p with the byte at position pos (from 1) set to val
WithByte(p, pos, val) ==
    [p EXCEPT !.at = [q \in (DOMAIN p.at) \cup {pos} |->
                         IF q = pos THEN val ELSE p.at[q]]]

\* Changes of the last byte of value
ValueTampers ==
    {[NoTamper EXCEPT !.t = "value_byte", !.pos = Len(value), !.val = b] :
        b \in {Bump(value[Len(value)]), 0} \ {value[Len(value)]}}

\* depth - 1, depth + 1 and depth + 2^32
DepthTampers ==
    {[NoTamper EXCEPT !.t = "depth", !.d = d] :
        d \in {U64Succ(depth), Plus2To32(depth)}
              \cup (IF U64IsZero(depth) THEN {} ELSE {U64Pred(depth)})}

\* Every reordering of the windows that changes the buffer
PermTampers ==
    {[NoTamper EXCEPT !.t = "perm", !.perm = f] :
        f \in {g \in Permutations(1..(proof.len \div MAX_TRIE_NODE_LENGTH)) :
                  Permuted(proof, g) # proof}}

\* One byte of proof, root, value or key
ByteTampers ==
    {ByteTamper("proof_byte", pos, ByteAt(proof, pos - 1)) :
        pos \in UNION {WindowPositions(proof, w) :
                          w \in 0..(proof.len \div MAX_TRIE_NODE_LENGTH - 1)}}
    \cup {ByteTamper("root_byte", pos, root[pos]) : pos \in {1, Len(root)}}
    \cup {ByteTamper("value_byte", pos, value[pos]) : pos \in {1, Len(value)}}
    \cup {ByteTamper("key_byte", pos, key[pos]) : pos \in {1, Len(key)}}

\* One byte of a window behind the first depth windows
TailTampers ==
    {ByteTamper("proof_byte", w * MAX_TRIE_NODE_LENGTH + 2,
                ByteAt(proof, w * MAX_TRIE_NODE_LENGTH + 1)) : w \in {100, 256, 257}}

(***************************************************************************)
(* Changes of the child reference of one internal node, and of the bytes   *)
(* behind a node's frame                                                   *)
(***************************************************************************)
\* The most extensions without nibbles at the top of a path
MaxEmptyExtensions == 2

\* The RLP item written in place of the 32-byte hash child: its first 20 or
\* 31 bytes, 33 bytes, the empty string, a leaf of 3 bytes embedded as a
\* nested list; "hash" and "sibling20" leave the reference as it is
AlteredItem(child, how) ==
    CASE how \in {"trunc20", "trunc20_padded"} -> RlpStr(SubSeq(child, 1, 20))
      [] how = "short31" -> RlpStr(SubSeq(child, 1, 31))
      [] how = "long33" -> RlpStr(child \o <<child[1]>>)
      [] how = "empty" -> RlpStr(<<>>)
      [] how = "inline" -> RlpList(RlpStr(HexPrefix(<<5>>, TRUE)) \o <<7>>)
      [] OTHER -> RlpStr(child)

\* The node of kind t at cursor ptr with its child reference changed;
\* "sibling20" cuts the hash in the slot behind the one on the path
AlteredNode(t, nibs, ptr, child, how) ==
    IF t \in {"E0", "E1", "E2"}
    THEN RlpList(RlpStr(HexPrefix(SubSeq(nibs, ptr + 1, ptr + NibblesUsed(t)), FALSE))
                 \o AlteredItem(child, how))
    ELSE RlpList(Concat([s \in 1..16 |->
                     IF s - 1 = nibs[ptr + 1] THEN AlteredItem(child, how)
                     ELSE IF t # "F" THEN RlpStr(<<>>)
                     ELSE IF how = "sibling20" /\ s - 1 = (nibs[ptr + 1] + 1) % 16
                          THEN RlpStr(SubSeq(SiblingHash(s - 1), 1, 20))
                          ELSE RlpStr(SiblingHash(s - 1))], 1, 16) \o <<128>>)

\* The node of level k above the nodes below: it refers to the changed
\* node below when the hashes are recomputed, to the original one otherwise
BuildAlteredOn(nibs, shape, k, ptr, alt, below, orig) ==
    <<AlteredNode(shape[k], nibs, ptr,
                  NodeDigest(IF alt.rehash THEN below[1] ELSE orig[1]),
                  IF k = alt.pos THEN alt.how ELSE "hash")>> \o below

\* The nodes of the path from level k down, the child reference of the node
\* of level alt.pos changed as alt.how says
RECURSIVE BuildAltered(_, _, _, _, _, _)
BuildAltered(nibs, shape, k, ptr, leafField, alt) ==
    IF k > alt.pos THEN BuildFrom(nibs, shape, k, ptr, leafField)
    ELSE BuildAlteredOn(nibs, shape, k, ptr, alt,
             BuildAltered(nibs, shape, k + 1, ptr + NibblesUsed(shape[k]), leafField, alt),
             BuildFrom(nibs, shape, k + 1, ptr + NibblesUsed(shape[k]), leafField))

\* The proof buffer of the changed nodes and the root it is offered with:
\* the hash of the new first node when the hashes are recomputed, the old
\* root otherwise.  With "trunc20_padded" the last 12 bytes of the hash
\* stand behind the frame of the changed node, where no hash covers them.
AlteredProofOf(nodes, child, a_root, alt) ==
    [proof |-> Bytes(Concat([w \in 1..Len(nodes) |->
                               PadNode(nodes[w] \o
                                   (IF w = alt.pos /\ alt.how = "trunc20_padded"
                                    THEN SubSeq(child, 21, 32) ELSE <<>>))],
                            1, Len(nodes))),
     root |-> IF alt.rehash THEN NodeDigest(nodes[1]) ELSE a_root]

\* The same for the path built from gen = [k, shape, v]
AlteredProof(a_kind, nibs, gen, a_root, alt) ==
    AlteredProofOf(
        BuildAltered(nibs, gen.shape, 1, 0, LeafField(a_kind, SigBytes(a_kind, gen.v)), alt),
        NodeDigest(BuildFrom(nibs, gen.shape, 1, 0,
                             LeafField(a_kind, SigBytes(a_kind, gen.v)))[alt.pos + 1]),
        a_root, alt)

\* Accepted proofs with one or more internal nodes: the paths of ShapeOf,
\* and paths that begin with extensions without nibbles
ChildInputs ==
    {[inp |-> [MakeInput(a_kind, 1, shape, 1, 0) EXCEPT !.wf = shape[1] # "E0"],
      gen |-> [k |-> 1, shape |-> shape, v |-> 1]] :
        a_kind \in {"storage", "state"},
        shape \in {ShapeOf(pattern, n) : pattern \in 1..2, n \in 1..MaxInternal}
                  \cup {[j \in 1..(n + 1) |-> IF j <= n THEN "E0" ELSE "B"] :
                           n \in 1..MaxEmptyExtensions}}

\* One child reference changed, with and without recomputed hashes; a
\* full branch fills its window and has no room for a longer reference
ChildTampers ==
    {t \in {[NoTamper EXCEPT !.t = "child", !.pos = level, !.how = how, !.rehash = rehash] :
                level \in 1..Len(args.shape),
                how \in {"hash", "trunc20", "trunc20_padded", "short31", "long33", "empty",
                         "inline", "sibling20"},
                rehash \in BOOLEAN} :
        /\ t.how = "long33" => args.shape[t.pos] # "F"
        /\ t.how = "sibling20" => args.shape[t.pos] = "F"
        /\ t.how = "trunc20_padded" => args.shape[t.pos] \in {"E0", "E1", "E2"}}

\* One byte behind the frame of a node of the path that does not fill its
\* window: the first one and the last one of the window
PadTampers ==
    {[NoTamper EXCEPT !.t = "pad_byte", !.pos = pos, !.val = b] :
        pos \in UNION {{w * MAX_TRIE_NODE_LENGTH + FrameLen(proof, w) + 1,
                        (w + 1) * MAX_TRIE_NODE_LENGTH} :
                          w \in {x \in 0..(depth[1] - 1) :
                                    FrameLen(proof, x) < MAX_TRIE_NODE_LENGTH}},
        b \in {1, 183, 184, 255}}

TampersOf(fam) ==
    IF fam = "value" THEN ValueTampers
    ELSE IF fam = "tamper" THEN DepthTampers \cup PermTampers \cup ByteTampers
    ELSE IF fam = "child" THEN ChildTampers \cup PadTampers
    ELSE TailTampers

Tamper ==
    /\ call = 1
    /\ Finished
    /\ \E t \in TampersOf(family) :
          /\ tamper' = t
          /\ proof' = CASE t.t \in {"proof_byte", "pad_byte"} -> WithByte(proof, t.pos, t.val)
                        [] t.t = "perm" -> Permuted(proof, t.perm)
                        [] t.t = "child" -> AlteredProof(kind, key_nibbles, args, root, t).proof
                        [] OTHER -> proof
          /\ root' = CASE t.t = "root_byte" -> [root EXCEPT ![t.pos] = t.val]
                       [] t.t = "child" -> AlteredProof(kind, key_nibbles, args, root, t).root
                       [] OTHER -> root
          /\ value' = IF t.t = "value_byte" THEN [value EXCEPT ![t.pos] = t.val] ELSE value
          /\ key' = IF t.t = "key_byte" THEN [key EXCEPT ![t.pos] = t.val] ELSE key
          /\ depth' = IF t.t = "depth" THEN t.d ELSE depth
    /\ first' = [err |-> err, depth |-> depth, trace |-> trace]
    /\ call' = 2
    /\ pc' = "call"
    /\ i' = 0
    /\ key_nibbles' = <<>>
    /\ key_ptr' = 0
    /\ extracted_hash' = <<>>
    /\ result' = "no_value"
    /\ err' = "none"
    /\ trace' = <<>>
    /\ UNCHANGED <<op, args, ret, family, wellformed, kind>>

Next ==
    \/ Enter
    \/ VerifyInternalNode
    \/ VerifyStorageLeafNode
    \/ VerifyStateLeafNode
    \/ Tamper

\* Well-formed and forged proofs, then a change of the value
Init == InitOf("value")

Spec == Init /\ [][Next]_vars

\* Well-formed proofs and proofs with a depth beyond 2^32, then a change of
\* one byte, of depth, or of the order of the windows
InitTamper == InitOf("tamper")

SpecTamper == InitTamper /\ [][Next]_vars

\* Buffers of more than 256 windows, then a change behind depth windows
InitWide == InitOf("wide")

SpecWide == InitWide /\ [][Next]_vars

\* Accepted proofs with internal nodes, then a change of one child
\* reference or of one byte behind a frame
InitChild == \E c \in ChildInputs : InitFrom("child", c.inp, c.gen)

SpecChild == InitChild /\ [][Next]_vars

TypeOK ==
    /\ pc \in {"call", "loop", "returned", "aborted"}
    /\ call \in {1, 2}
    /\ Finished => (pc = "returned") = (err = "none")

(***************************************************************************)
(* Reference reading of a node window, by the RLP and hex-prefix rules of  *)
(* the Ethereum yellow paper, used to state the properties                 *)
(***************************************************************************)
\* Big-endian value of the n <= 2 bytes of b from position pos
RefBE(b, pos, n) ==
    IF n = 1 THEN b[pos] ELSE IF n = 2 THEN 256 * b[pos] + b[pos + 1] ELSE 0 - 1

\* The RLP item that starts at position pos of b: header length, payload
\* length, and whether it is a list
RefItem(b, pos) ==
    LET p == b[pos]
    IN  IF p < 128 THEN [hdr |-> 0, len |-> 1, list |-> FALSE]
        ELSE IF p < 184 THEN [hdr |-> 1, len |-> p - 128, list |-> FALSE]
        ELSE IF p < 192
        THEN [hdr |-> 1 + (p - 183), len |-> RefBE(b, pos + 1, p - 183), list |-> FALSE]
        ELSE IF p < 248 THEN [hdr |-> 1, len |-> p - 192, list |-> TRUE]
        ELSE [hdr |-> 1 + (p - 247), len |-> RefBE(b, pos + 1, p - 247), list |-> TRUE]

\* The number of bytes of the node framed in window win
RefFrameLen(win) == RefItem(win, 1).hdr + RefItem(win, 1).len

\* The field a list decoder records for the item at pos: the payload of a
\* string, the whole item of a nested list
RefField(b, pos) ==
    LET it == RefItem(b, pos)
    IN  IF it.list THEN SubSeq(b, pos, pos + it.hdr + it.len - 1)
        ELSE SubSeq(b, pos + it.hdr, pos + it.hdr + it.len - 1)

RefFirstPos(win) == 1 + RefItem(win, 1).hdr

RefSecondPos(win) ==
    RefFirstPos(win) + RefItem(win, RefFirstPos(win)).hdr + RefItem(win, RefFirstPos(win)).len

RefFirstField(win) == RefField(win, RefFirstPos(win))

RefSecondField(win) == RefField(win, RefSecondPos(win))

\* Whether f is, in full, the RLP encoding of one byte string
RefIsString(f) ==
    /\ Len(f) >= 1
    /\ ~RefItem(f, 1).list
    /\ RefItem(f, 1).hdr + RefItem(f, 1).len = Len(f)

RefPayload(f) == SubSeq(f, RefItem(f, 1).hdr + 1, Len(f))

RefNibbles(bytes) ==
    [k \in 1..(2 * Len(bytes)) |->
        IF k % 2 = 1 THEN bytes[(k + 1) \div 2] \div 16 ELSE bytes[k \div 2] % 16]

\* Whether win frames a leaf whose path is the rest of nibs behind ptr
RefLeafCompletes(win, nibs, ptr) ==
    LET hp == RefNibbles(RefFirstField(win))
    IN  /\ Len(hp) >= 2
        /\ hp[1] \in {2, 3}
        /\ SubSeq(hp, IF hp[1] = 3 THEN 2 ELSE 3, Len(hp)) = SubSeq(nibs, ptr + 1, Len(nibs))

\* The significant bytes of a left-padded value
Sig(v) ==
    LET nz == {k \in 1..Len(v) : v[k] # 0}
    IN  IF nz = {} THEN <<>>
        ELSE SubSeq(v, CHOOSE k \in nz : \A j \in nz : k <= j, Len(v))

\* depth as a number, for a depth below 2^16
SmallDepth(d) == d[2] = 0 /\ d[3] = 0 /\ d[4] = 0

Windows == proof.len \div MAX_TRIE_NODE_LENGTH

(***************************************************************************)
(* Properties                                                              *)
(***************************************************************************)
\* C1.  Soundness of the hash chain: whenever a call returns true for a proof
\* with depth d >= 1, the windows 0 .. d-1 all exist and were all checked, in
\* order: the framed prefix of window 0 hashes to the supplied root, the
\* framed prefix of every window j in 1 .. d-1 hashes to the child reference
\* the resolver extracted from window j-1, and window d-1 is a leaf whose
\* nibbles complete the path of keccak256(key).
C1_HashChainSound ==
    pc = "returned" =>
        /\ SmallDepth(depth)
        /\ 1 <= depth[1]
        /\ depth[1] <= Windows
        /\ Len(trace) = depth[1]
        /\ \A j \in 1..Len(trace) :
              /\ trace[j].win = j - 1
              /\ trace[j].expected = (IF j = 1 THEN root ELSE trace[j - 1].out)
              /\ keccak256(Window(proof, j - 1), RefFrameLen(Window(proof, j - 1)))
                    = trace[j].expected
              /\ trace[j].leaf = (j = depth[1])
        /\ RefLeafCompletes(Window(proof, depth[1] - 1),
                            RefNibbles(keccak256(key, Len(key))),
                            IF depth[1] = 1 THEN 0 ELSE trace[depth[1] - 1].ptr)

\* A single leaf offered with depth 2^32 + 1 in a buffer of three windows is
\* accepted: only the terminal step checked a window
C1_Witness ==
    /\ pc = "returned"
    /\ depth = Plus2To32(U64(1))
    /\ Windows = 3
    /\ Len(trace) = 1
    /\ trace[1].leaf

\* C2.  Completeness: verify_storage_root returns true for every well-formed
\* storage proof (zero-padded nodes, 1 <= depth <= PROOF_LEN/532) offered
\* with the true root and the true left-padded value.
C2_StorageComplete ==
    (call = 1 /\ kind = "storage" /\ wellformed /\ Finished)
        => (pc = "returned" /\ result = "true")

\* A well-formed single-leaf storage proof holding a 32-byte word, offered
\* in a buffer of two windows, aborts in the masked iteration of the loop
C2_Witness ==
    /\ call = 1 /\ kind = "storage" /\ wellformed
    /\ depth = U64(1) /\ Windows = 2
    /\ Len(Sig(value)) = MAX_STORAGE_VALUE_LENGTH
    /\ pc = "aborted" /\ err = "value_longer_than_max" /\ i = 1

\* C3.  Storage value binding: verify_storage_root returns true only if the
\* leaf's second field is an RLP string whose payload is the significant
\* bytes of value; and changing the last byte of the value of an accepted
\* input makes the call fail at the value-match check.
C3_StorageValueBound ==
    /\ (kind = "storage" /\ pc = "returned")
          => /\ RefIsString(RefSecondField(Window(proof, LeafWindow)))
             /\ RefPayload(RefSecondField(Window(proof, LeafWindow))) = Sig(value)
    /\ (kind = "storage" /\ call = 2 /\ Finished /\ first.err = "none"
            /\ tamper.t = "value_byte" /\ tamper.pos = Len(value))
          => err \in {"value_length_mismatch", "arrays_do_not_match"}

\* A storage leaf whose second field is the single byte 0xa0 is accepted for
\* the 32 bytes that follow the node's frame in its window
C3_Witness ==
    /\ kind = "storage"
    /\ pc = "returned"
    /\ RefSecondField(Window(proof, LeafWindow)) = <<160>>
    /\ value = ForgedValue

C5_TamperEvident ==
    (call = 2 /\ Finished /\ first.err = "none"
        /\ tamper.t \in {"proof_byte", "root_byte", "value_byte", "key_byte", "depth"})
        => err # "none"

\* An accepted input is accepted again with 2^32 added to its depth
C5_Witness ==
    /\ call = 2 /\ pc = "returned" /\ first.err = "none"
    /\ tamper.t = "depth"
    /\ depth = Plus2To32(first.depth)

\* C6.  Ordering of nodes: after an accepted call, a buffer with the same
\* windows in another order is rejected.
C6_PermutedRejected ==
    (call = 2 /\ Finished /\ first.err = "none" /\ tamper.t = "perm") => err # "none"

\* An accepted buffer is accepted again with two of its windows exchanged
C6_Witness ==
    /\ call = 2 /\ pc = "returned" /\ first.err = "none"
    /\ tamper.t = "perm"
    /\ tamper.perm = <<1, 3, 2>>

\* C7.  A call never returns false: it returns true with no assertion
\* failed, or it aborts on the failed assertion and returns nothing.
C7_NeverReturnsFalse ==
    /\ result \in {"true", "no_value"}
    /\ (result = "true") = (pc = "returned")
    /\ pc = "returned" => err = "none"
    /\ err # "none" => (pc = "aborted" /\ result = "no_value")
    /\ pc = "aborted" => err # "none"

\* A call that aborted at the value comparison of the terminal step
C7_Witness == pc = "aborted" /\ err = "arrays_do_not_match" /\ result = "no_value"

\* C8.  Depth 1: a single leaf that hashes to the root and matches key and
\* value is accepted with depth 1 in a buffer of any number of windows.
C8_DepthOneAccepted ==
    (call = 1 /\ wellformed /\ depth = U64(1) /\ Finished
        /\ keccak256(Window(proof, 0), RefFrameLen(Window(proof, 0))) = root
        /\ RefLeafCompletes(Window(proof, 0), RefNibbles(keccak256(key, Len(key))), 0))
        => pc = "returned"

\* A well-formed single-leaf state proof in a buffer of two windows aborts
\* in the masked iteration of the loop
C8_Witness ==
    /\ call = 1 /\ kind = "state" /\ wellformed
    /\ depth = U64(1) /\ Windows = 2
    /\ pc = "aborted" /\ i = 1

\* C9.  The outcome does not depend on the proof bytes at indices
\* >= depth * 532: changing one of them leaves the outcome as it was.
C9_TailIgnored ==
    (call = 2 /\ Finished /\ tamper.t = "proof_byte" /\ SmallDepth(depth)
        /\ tamper.pos > depth[1] * MAX_TRIE_NODE_LENGTH)
        => (err = "none") = (first.err = "none")

\* With depth 2 in a buffer of 258 windows, a byte of window 256 decides the
\* outcome: the input is accepted, and rejected once that byte is changed
C9_Witness ==
    /\ call = 2 /\ pc = "aborted" /\ first.err = "none"
    /\ depth = U64(2)
    /\ tamper.t = "proof_byte"
    /\ tamper.pos > 256 * MAX_TRIE_NODE_LENGTH
    /\ err = "internal_node_hash_mismatch"

\* C10.  Mis-stated depth: offering a valid proof with a depth other than
\* its number of nodes makes the call fail at a keccak node-hash comparison.
C10_WrongDepthFailsAtHash ==
    (call = 2 /\ Finished /\ wellformed /\ first.err = "none" /\ tamper.t = "depth")
        => err \in {"internal_node_hash_mismatch", "leaf_node_hash_mismatch"}

\* A valid proof offered with depth + 1 fails, at a check that is no hash
\* comparison
C10_Witness ==
    /\ call = 2 /\ pc = "aborted" /\ wellformed /\ first.err = "none"
    /\ tamper.t = "depth"
    /\ depth = U64Succ(first.depth)
    /\ err \notin {"internal_node_hash_mismatch", "leaf_node_hash_mismatch"}

\* C11.  Depth bound: a call whose depth is 0 or exceeds the number of
\* windows PROOF_LEN/532 fails, for every u64 depth (the casts of depth - 1
\* truncate modulo 2^32 and 2^8).
C11_DepthBound ==
    (Finished /\ (U64IsZero(depth) \/ ~SmallDepth(depth) \/ depth[1] > Windows))
        => err # "none"

\* A state proof of one window offered with depth 2^32 + 1 is accepted
C11_Witness ==
    /\ kind = "state"
    /\ pc = "returned"
    /\ ~SmallDepth(depth)
    /\ AsU32(U64Pred(depth)) = <<0, 0>>
    /\ Windows < 4

(***************************************************************************)
(* Stand-alone calls of the RLP decoders (rlp.nr)                          *)
(***************************************************************************)
\* The largest capacity NUM_FIELDS a stand-alone list decode is given, the
\* longest buffer enumerated byte by byte, and the most zero bytes appended
\* to an encoding
MaxFields == 3
MaxBuf == 4
MaxPad == 2

\* Sequences over S of length 0..n
RECURSIVE SeqsUpTo(_, _)
SeqsUpTo(S, n) ==
    IF n = 0 THEN {<<>>}
    ELSE LET shorter == SeqsUpTo(S, n - 1)
         IN  shorter \cup {Append(s, x) : s \in {t \in shorter : Len(t) = n - 1}, x \in S}

\* Every prefix byte p alone, and followed by one or two length bytes, as
\* in data_len_test_unpadded and data_len_test_padded
HeaderInputs ==
    {[fam |-> "header", input |-> <<p>> \o t, fields |-> <<>>] :
        p \in 0..255, t \in SeqsUpTo({0, 1, 56, 255}, 2)}

\* Buffers of at most MaxBuf bytes enumerated byte by byte over single
\* bytes, short strings, the long-string prefixes 0xb8 and 0xba, short lists
\* and the long-list prefix 0xf8
BufferInputs ==
    {[fam |-> "buffer", input |-> <<p>> \o t, fields |-> <<>>] :
        p \in {5, 129, 192, 193, 194, 195, 248},
        t \in SeqsUpTo({0, 5, 128, 129, 184, 186, 193}, MaxBuf - 1)}

\* A field of a list: a byte string, or a nested list given by its payload
StringField(b) == [type |-> RLP_STRING, b |-> b]
ListField(b) == [type |-> RLP_LIST, b |-> b]

\* The fields lists are built from: the empty string, a single byte below
\* and one above 0x80, and strings whose length needs one and two length
\* bytes; nested lists with a header of one and of two bytes
Fields ==
    {StringField(<<>>), StringField(<<5>>), StringField(<<129>>),
     StringField([k \in 1..56 |-> k]), StringField([k \in 1..256 |-> k % 256]),
     ListField(<<5>>), ListField([k \in 1..56 |-> k])}

\* Canonical encoding of a field and of a list of fields
encode_field(f) == IF f.type = RLP_LIST THEN RlpList(f.b) ELSE RlpStr(f.b)

encode_list(fs) == RlpList(Concat([k \in 1..Len(fs) |-> encode_field(fs[k])], 1, Len(fs)))

\* Encodings of lists of at most MaxFields fields and of single strings,
\* alone and followed by zero padding
EncodingInputs ==
    {[fam |-> "list", input |-> encode_list(fs) \o Zeros(pad), fields |-> fs] :
        fs \in SeqsUpTo(Fields, MaxFields), pad \in 0..MaxPad}
    \cup {[fam |-> "string", input |-> encode_field(f) \o Zeros(pad), fields |-> <<f>>] :
            f \in {g \in Fields : g.type = RLP_STRING}, pad \in 0..MaxPad}

RlpInputs == HeaderInputs \cup BufferInputs \cup EncodingInputs

\* The verifier is not running during a stand-alone call
VerifierIdle ==
    /\ wellformed = FALSE
    /\ kind = "none"
    /\ key = <<>>
    /\ proof = Bytes(<<>>)
    /\ depth = U64(0)
    /\ value = <<>>
    /\ root = <<>>
    /\ pc = "idle"
    /\ i = 0
    /\ key_nibbles = <<>>
    /\ key_ptr = 0
    /\ extracted_hash = <<>>
    /\ result = "no_value"
    /\ err = "none"
    /\ trace = <<>>
    /\ call = 1
    /\ first = [err |-> "pending", depth |-> U64(0), trace |-> <<>>]
    /\ tamper = NoTamper

VerifierUnchanged ==
    UNCHANGED <<family, wellformed, kind, key, proof, depth, value, root, pc, i,
                key_nibbles, key_ptr, extracted_hash, result, err, trace, call,
                first, tamper>>

InitRlp ==
    /\ family = "rlp"
    /\ VerifierIdle
    /\ op = "idle"
    /\ args \in RlpInputs
    /\ ret = <<>>

\* decode_len(input)
DecodeLen ==
    /\ family = "rlp"
    /\ op = "idle"
    /\ op' = "decode_len"
    /\ ret' = [F |-> 0, r |-> decode_len(args.input)]
    /\ UNCHANGED args
    /\ VerifierUnchanged

\* decode0(input)
Decode0 ==
    /\ family = "rlp"
    /\ op = "idle"
    /\ op' = "decode0"
    /\ ret' = [F |-> 0, r |-> decode0(args.input)]
    /\ UNCHANGED args
    /\ VerifierUnchanged

\* decode1::<N, NUM_FIELDS>(input)
Decode1 ==
    /\ family = "rlp"
    /\ op = "idle"
    /\ \E NUM_FIELDS \in 1..MaxFields :
          /\ op' = "decode1"
          /\ ret' = [F |-> NUM_FIELDS, r |-> decode1(args.input, NUM_FIELDS)]
    /\ UNCHANGED args
    /\ VerifierUnchanged

\* decode1_small_lis::<N, NUM_FIELDS>(input)
Decode1SmallLis ==
    /\ family = "rlp"
    /\ op = "idle"
    /\ \E NUM_FIELDS \in 1..MaxFields :
          /\ op' = "decode1_small_lis"
          /\ ret' = [F |-> NUM_FIELDS, r |-> decode1_small_lis(args.input, NUM_FIELDS)]
    /\ UNCHANGED args
    /\ VerifierUnchanged

NextRlp ==
    \/ DecodeLen
    \/ Decode0
    \/ Decode1
    \/ Decode1SmallLis

SpecRlp == InitRlp /\ [][NextRlp]_vars

(***************************************************************************)
(* The RLP header table                                                    *)
(***************************************************************************)
\* The number of length bytes the prefix byte p announces
RefLenLen(p) == IF 184 <= p /\ p < 192 THEN p - 183 ELSE IF p >= 248 THEN p - 247 ELSE 0

\* The row of the header table for the first byte of b
RefHeader(b) ==
    LET p == b[1]
    IN  IF p < 128 THEN [offset |-> 0, length |-> 1, data_type |-> RLP_STRING]
        ELSE IF p < 184 THEN [offset |-> 1, length |-> p - 128, data_type |-> RLP_STRING]
        ELSE IF p < 192
        THEN [offset |-> 1 + (p - 183), length |-> RefBE(b, 2, p - 183),
              data_type |-> RLP_STRING]
        ELSE IF p < 248 THEN [offset |-> 1, length |-> p - 192, data_type |-> RLP_LIST]
        ELSE [offset |-> 1 + (p - 247), length |-> RefBE(b, 2, p - 247),
              data_type |-> RLP_LIST]

\* C12.  decode_len fails exactly when the prefix byte announces more than
\* MAX_LEN_IN_BYTES length bytes, and otherwise returns the offset, length
\* and data type of the header table, the length of a long item being the
\* big-endian value of the length bytes that follow the prefix.
C12_DecodeLenTable ==
    op = "decode_len" =>
        LET b == args.input
            ll == RefLenLen(b[1])
        IN  /\ (ret.r.err # "none") <=> (ll > MAX_LEN_IN_BYTES)
            /\ (ll <= MAX_LEN_IN_BYTES /\ Len(b) >= 1 + ll) =>
                  /\ ret.r.offset = RefHeader(b).offset
                  /\ ret.r.length = RefHeader(b).length
                  /\ ret.r.data_type = RefHeader(b).data_type

\* decode_len of f9 01 38 gives a list header of 3 bytes and a payload of 312
C12_Witness ==
    /\ op = "decode_len"
    /\ args.input = <<249, 1, 56>>
    /\ ret.r = [err |-> "none", offset |-> 3, length |-> 312, data_type |-> RLP_LIST]

\* The list decoders and the table a successful decode returned
ListDecoded == op \in {"decode1", "decode1_small_lis"} /\ ret.r.err = "none"

\* C13.  A table returned by decode1 or decode1_small_lis for an input of
\* length N and capacity F has F slots, num_fields <= F, every slot below
\* num_fields inside the input (offset + length <= N) and every slot from
\* num_fields on zero in offset, length and data type.
C13_ListTable ==
    ListDecoded =>
        LET t == ret.r
            N == Len(args.input)
        IN  /\ t.num_fields <= ret.F
            /\ Len(t.offset) = ret.F /\ Len(t.length) = ret.F /\ Len(t.data_type) = ret.F
            /\ \A k \in 1..ret.F :
                  /\ k <= t.num_fields => t.offset[k] + t.length[k] <= N
                  /\ k > t.num_fields =>
                        t.offset[k] = 0 /\ t.length[k] = 0 /\ t.data_type[k] = 0

\* A list of two items decoded with capacity 3: one slot stays unused
C13_Witness ==
    /\ ListDecoded
    /\ ret.F = 3
    /\ ret.r.num_fields = 2
    /\ ret.r.offset[2] + ret.r.length[2] = Len(args.input)

\* The number of bytes header and payload of the item at position 1 of b
\* announce; more than Len(b) when the length bytes themselves are cut off,
\* and -1 when the prefix announces more than MAX_LEN_IN_BYTES length bytes
RefTotal(b) ==
    IF RefLenLen(b[1]) > MAX_LEN_IN_BYTES THEN 0 - 1
    ELSE IF 1 + RefLenLen(b[1]) > Len(b) THEN Len(b) + 1
    ELSE RefItem(b, 1).hdr + RefItem(b, 1).len

\* The position after the item that starts at pos < end; beyond end when
\* the item cannot be read inside b
RefItemEnd(b, pos, end) ==
    IF RefLenLen(b[pos]) > MAX_LEN_IN_BYTES \/ pos + RefLenLen(b[pos]) > Len(b)
    THEN end + 1
    ELSE pos + RefItem(b, pos).hdr + RefItem(b, pos).len

\* Reading at most k items from pos, stopping at or beyond end: the
\* position reached and the number of items read
RECURSIVE RefItems(_, _, _, _, _)
RefItems(b, pos, end, k, n) ==
    IF k = 0 \/ pos >= end THEN [pos |-> pos, n |-> n]
    ELSE RefItems(b, RefItemEnd(b, pos, end), end, k - 1, n + 1)

\* C14.  decode1 and decode1_small_lis succeed only if the input is a list
\* whose header and payload fit the buffer and whose payload is tiled
\* exactly by the items read in at most F iterations, which num_fields then
\* counts; they fail when the input is not a list, when header plus payload
\* exceed the buffer, when F items do not exhaust the payload, and when an
\* item ends beyond the payload.
C14_ExactConsumption ==
    op \in {"decode1", "decode1_small_lis"} =>
        LET b == args.input
            isList == b[1] >= 192
            total == RefTotal(b)
            fits == isList /\ total >= 0 /\ total <= Len(b)
            walk == IF fits THEN RefItems(b, 1 + RefItem(b, 1).hdr, total + 1, ret.F, 0)
                    ELSE [pos |-> 0, n |-> 0]
        IN  /\ ret.r.err = "none" =>
                  fits /\ walk.pos = total + 1 /\ ret.r.num_fields = walk.n
            /\ ~isList => ret.r.err # "none"
            /\ (isList /\ total > Len(b)) => ret.r.err # "none"
            /\ (fits /\ walk.pos < total + 1) => ret.r.err # "none"
            /\ (fits /\ walk.pos > total + 1) => ret.r.err # "none"

\* A list of two items is refused by decode1 with capacity 1
C14_Witness ==
    /\ op = "decode1"
    /\ ret.F = 1
    /\ args.input = <<194, 5, 5>>
    /\ ret.r.err = "rlp_data_not_exhausted"

\* The bytes input[offset .. offset + length)
Slice(input, offset, length) == SubSeq(input, offset + 1, offset + length)

\* C15.  decode1 applied to the canonical encoding of a list of at most F
\* fields, alone or followed by zero padding, returns num_fields equal to
\* the number of fields and a table whose slices are the string fields;
\* decode0 applied to the encoding of a byte string returns the offset and
\* length of that string; decode1 of the single byte 0xc0 returns
\* num_fields = 0.
C15_RoundTrip ==
    /\ (op = "decode1" /\ args.fam = "list" /\ Len(args.fields) <= ret.F) =>
          /\ ret.r.err = "none"
          /\ ret.r.num_fields = Len(args.fields)
          /\ \A k \in 1..Len(args.fields) :
                /\ ret.r.data_type[k] = args.fields[k].type
                /\ args.fields[k].type = RLP_STRING =>
                      Slice(args.input, ret.r.offset[k], ret.r.length[k])
                          = args.fields[k].b
    /\ (op = "decode0" /\ args.fam = "string") =>
          /\ ret.r.err = "none"
          /\ Slice(args.input, ret.r.offset, ret.r.length) = args.fields[1].b
    /\ (op = "decode1" /\ args.input = <<192>>) =>
          ret.r.err = "none" /\ ret.r.num_fields = 0

\* The list (256-byte string, 0x81, empty string) without padding comes
\* back from decode1 with capacity 3
C15_Witness ==
    /\ op = "decode1"
    /\ args.fam = "list"
    /\ Len(args.fields) = 3
    /\ Len(args.fields[1].b) = 256
    /\ args.fields[2].b = <<129>>
    /\ args.fields[3].b = <<>>
    /\ Len(args.input) = 265
    /\ ret.r.err = "none"
    /\ ret.r.offset = <<6, 263, 265>>
    /\ ret.r.length = <<256, 1, 0>>

\* The items from pos to end are strings with a header byte below 0xb8 that
\* tile the payload exactly
RECURSIVE RefSmallItems(_, _, _)
RefSmallItems(b, pos, end) ==
    IF pos >= end THEN pos = end
    ELSE b[pos] < 184 /\ RefSmallItems(b, RefItemEnd(b, pos, end), end)

\* b holds a list that fits it and whose items are such strings
RefSmallList(b) ==
    /\ b[1] >= 192
    /\ RefTotal(b) >= 0
    /\ RefTotal(b) <= Len(b)
    /\ RefSmallItems(b, 1 + RefItem(b, 1).hdr, RefTotal(b) + 1)

\* Some item read in the first k items from pos has a header byte >= 0xb8
RECURSIVE RefHasBigItem(_, _, _, _)
RefHasBigItem(b, pos, end, k) ==
    IF k = 0 \/ pos >= end THEN FALSE
    ELSE b[pos] >= 184 \/ RefHasBigItem(b, RefItemEnd(b, pos, end), end, k - 1)

\* C16.  On a list all of whose items are strings with a header byte below
\* 0xb8, decode1_small_lis succeeds exactly when decode1 succeeds and then
\* returns the same table; on a list that contains an item with a header
\* byte of 0xb8 or more decode1_small_lis fails.
C16_FastPathEqualsGeneral ==
    op = "decode1_small_lis" =>
        LET b == args.input
            general == decode1(b, ret.F)
        IN  /\ RefSmallList(b) =>
                  /\ (ret.r.err = "none") <=> (general.err = "none")
                  /\ ret.r.err = "none" => ret.r = general
            /\ (b[1] >= 192 /\ RefTotal(b) >= 0 /\ RefTotal(b) <= Len(b)
                  /\ RefHasBigItem(b, 1 + RefItem(b, 1).hdr, RefTotal(b) + 1, ret.F))
                  => ret.r.err # "none"

\* The empty list [0xc0] with capacity 1: decode1 returns num_fields = 0,
\* decode1_small_lis reads input[1] behind the one-byte buffer and aborts
C16_Witness ==
    /\ op = "decode1_small_lis"
    /\ args.input = <<192>>
    /\ ret.F = 1
    /\ ret.r.err = "index_out_of_bounds"
    /\ decode1(args.input, ret.F).err = "none"
    /\ decode1(args.input, ret.F).num_fields = 0

(***************************************************************************)
(* template.main.nr: the voting circuit                                    *)
(***************************************************************************)
\* Lines 66-74: computed_key = array_slot + padded_array_index, added byte
\* by byte from the last with a carry; the carry out of byte 0 is dropped.
\* The test of sum and computed_key only makes each iteration's values
\* evaluated before the next iteration starts; it is always true.
RECURSIVE computed_key_loop(_, _, _, _, _)
computed_key_loop(array_slot, padded_array_index, n, carry, computed_key) ==
    IF n >= 32 THEN computed_key
    ELSE LET pos == 31 - n
             sum == At(array_slot, pos) + At(padded_array_index, pos) + carry
         IN  IF sum >= 0 /\ Len(computed_key) = 32
             THEN computed_key_loop(array_slot, padded_array_index, n + 1, sum \div 256,
                                    [computed_key EXCEPT ![pos + 1] = sum % 256])
             ELSE computed_key

\* Lines 45-74: the storage key of _checkpoints[account][index].  pk_hash
\* is keccak256(public_key, 64), of which bytes 12..31 are the address; each
\* digest is taken as an array of 32 bytes.
computed_key_of(public_key, padded_mapping_slot, padded_array_index) ==
    LET pk_hash == SubSeq(keccak256(public_key, 64), 1, 32)
        pre_image == [k \in 1..32 |-> IF k - 1 >= 12 THEN pk_hash[k] ELSE 0]
                         \o padded_mapping_slot
        checkpoint_account_slot == SubSeq(keccak256(pre_image, 64), 1, 32)
        array_slot == SubSeq(keccak256(checkpoint_account_slot, 32), 1, 32)
    IN  SubSeq(computed_key_loop(array_slot, padded_array_index, 0, 0, Zeros(32)), 1, 32)

\* A comparison that runs over all 32 bytes, block number included: the
\* variant against which the 28-byte comparison is tested
RECURSIVE voting_power_loop_all_bytes(_, _, _, _, _)
voting_power_loop_all_bytes(val, voting_power_threshold, n, votes_equal_so_far, gte) ==
    IF n >= 32 THEN gte
    ELSE IF votes_equal_so_far /\ At(val, n) > At(voting_power_threshold, n)
    THEN voting_power_loop_all_bytes(val, voting_power_threshold, n + 1, FALSE, TRUE)
    ELSE IF votes_equal_so_far /\ At(val, n) < At(voting_power_threshold, n)
    THEN voting_power_loop_all_bytes(val, voting_power_threshold, n + 1, FALSE, FALSE)
    ELSE voting_power_loop_all_bytes(val, voting_power_threshold, n + 1,
                                     votes_equal_so_far, gte)

\* Lines 89-101: voting_power_gte_threshold after iterations n .. 27
RECURSIVE voting_power_loop(_, _, _, _, _)
voting_power_loop(val, voting_power_threshold, n, votes_equal_so_far, gte) ==
    IF n >= 28 THEN gte
    ELSE IF votes_equal_so_far /\ At(val, n) > At(voting_power_threshold, n)
    THEN voting_power_loop(val, voting_power_threshold, n + 1, FALSE, TRUE)
    ELSE IF votes_equal_so_far /\ At(val, n) < At(voting_power_threshold, n)
    THEN voting_power_loop(val, voting_power_threshold, n + 1, FALSE, FALSE)
    ELSE voting_power_loop(val, voting_power_threshold, n + 1, votes_equal_so_far, gte)

\* main(...): the first failing assertion, or "none", and the TrieProof of
\* lines 76-81.  verified is what std::ecdsa_secp256k1::verify_signature
\* returned for the public key, signature and message hash; line 82, the
\* call of verify_storage_root, is a comment in the source.
main(inp) ==
    [err |-> IF ~inp.verified THEN "signature_verification_failed"
             ELSE IF \E n \in 0..27 : At(inp.padded_array_index, n) # 0
             THEN "padded_index_too_big"
             ELSE IF ~voting_power_loop(inp.value, inp.voting_power_threshold, 0, TRUE, TRUE)
             THEN "voting_power_below_threshold"
             ELSE "none",
     trie_proof |-> [key |-> computed_key_of(inp.public_key, inp.padded_mapping_slot,
                                             inp.padded_array_index),
                     proof |-> inp.storage_proof,
                     depth |-> inp.depth,
                     value |-> inp.value]]

\* The largest index of a byte value drawn for value and threshold
MaxVote == 1

\* b without its leading zero bytes
RECURSIVE Significant(_)
Significant(b) == IF b = <<>> \/ b[1] # 0 THEN b ELSE Significant(Tail(b))

\* A 32-byte word with the bytes 0xff, 0xfe, ... or 0 chosen by c at the
\* first and the last byte of the voting power (bytes 0 and 27) and at the
\* first byte of the block number (byte 28)
VoteWord(c) ==
    [k \in 1..32 |->
        CASE k = 1 -> (256 - c[1]) % 256
          [] k = 28 -> (256 - c[2]) % 256
          [] k = 29 -> (256 - c[3]) % 256
          [] OTHER -> 0]

\* The path of n + 1 nodes that holds val under computed_key
MainProof(computed_key, n, val) ==
    ProofOf("storage", computed_key,
            BuildFrom(key_as_nibbles(keccak256(computed_key, Len(computed_key))),
                      ShapeOf(1, n), 1, 0, LeafField("storage", Significant(val))),
            val, 0, <<>>, TRUE)

\* An input of main.  The storage proof is the path of n + 1 nodes that
\* holds the value under the derived key (authentic), or n + 1 windows of
\* zero bytes under the same root; depth is the template parameter n + 1;
\* the index is 0 for n = 0 and 255 for n = 1, or 2^32 (big).
MainInput(v, t, n, big, verified, authentic) ==
    LET val == VoteWord(v)
        padded_array_index ==
            [k \in 1..32 |-> IF big /\ k = 28 THEN 1
                             ELSE IF ~big /\ k = 32 THEN 255 * n ELSE 0]
        public_key == [k \in 1..64 |-> (k * 5 + 1) % 256]
        padded_mapping_slot == [k \in 1..32 |-> IF k = 32 THEN 8 ELSE 0]
        built == MainProof(computed_key_of(public_key, padded_mapping_slot,
                                           padded_array_index), n, val)
    IN  [storage_proof |-> IF authentic THEN built.proof
                           ELSE [len |-> built.proof.len, at |-> <<>>],
         depth |-> built.depth,
         value |-> val,
         storage_root |-> built.root,
         padded_mapping_slot |-> padded_mapping_slot,
         padded_array_index |-> padded_array_index,
         public_key |-> public_key,
         verified |-> verified,
         voting_power_threshold |-> VoteWord(t),
         authentic |-> authentic]

MainInputs ==
    {MainInput(v, t, n, big, verified, authentic) :
        v \in [1..3 -> 0..MaxVote], t \in [1..3 -> 0..MaxVote], n \in 0..1,
        big \in BOOLEAN, verified \in BOOLEAN, authentic \in BOOLEAN}

InitMain ==
    /\ family = "main"
    /\ VerifierIdle
    /\ op = "idle"
    /\ args \in MainInputs
    /\ ret = <<>>

\* main(storage_proof, value, storage_root, ...)
Main ==
    /\ family = "main"
    /\ op = "idle"
    /\ op' = "main"
    /\ ret' = main(args)
    /\ UNCHANGED args
    /\ VerifierUnchanged

\* The TrieProof main built, put to verify_storage_root(storage_root) after
\* main has accepted: the call main itself does not make
VerifyBuiltProof ==
    /\ family = "main"
    /\ op = "main"
    /\ ret.err = "none"
    /\ pc = "idle"
    /\ kind' = "storage"
    /\ key' = ret.trie_proof.key
    /\ proof' = ret.trie_proof.proof
    /\ depth' = ret.trie_proof.depth
    /\ value' = ret.trie_proof.value
    /\ root' = args.storage_root
    /\ pc' = "call"
    /\ UNCHANGED <<op, args, ret, family, wellformed, i, key_nibbles, key_ptr,
                   extracted_hash, result, err, trace, call, first, tamper>>

NextMain ==
    \/ Main
    \/ VerifyBuiltProof
    \/ Enter
    \/ VerifyInternalNode
    \/ VerifyStorageLeafNode

SpecMain == InitMain /\ [][NextMain]_vars

\* C17.  main succeeds only if the TrieProof it builds from the derived key,
\* the storage_proof witness, the depth and the value verifies against the
\* public storage_root: once main has accepted, verify_storage_root on that
\* TrieProof returns true.
C17_MainVerifiesStorageProof ==
    (family = "main" /\ op = "main" /\ ret.err = "none" /\ Finished)
        => (pc = "returned" /\ result = "true")

\* main has accepted a value with a storage proof of one window of zero
\* bytes, which verify_storage_root refuses at the hash of the leaf
C17_Witness ==
    /\ family = "main"
    /\ op = "main"
    /\ ret.err = "none"
    /\ ~args.authentic
    /\ args.storage_proof.at = <<>>
    /\ depth = U64(1)
    /\ pc = "aborted"
    /\ err = "leaf_node_hash_mismatch"

\* a - b borrows: the borrow out of byte 1 when the bytes pos .. 1 of b are
\* subtracted from those of a, least significant byte first
RECURSIVE RefBorrow(_, _, _, _)
RefBorrow(a, b, pos, borrow) ==
    IF pos = 0 THEN borrow
    ELSE RefBorrow(a, b, pos - 1, IF a[pos] - b[pos] - borrow < 0 THEN 1 ELSE 0)

\* The first 28 bytes of a, as a big-endian integer, are at least those of b
RefVotesGte(a, b) == RefBorrow(a, b, 28, 0) = 0

\* C18.  main succeeds only if the first 28 bytes of value, as a big-endian
\* unsigned integer, are at least the first 28 bytes of
\* voting_power_threshold; when signature and index pass, main succeeds
\* exactly in that case, whatever the last 4 bytes of the two arrays are.
C18_VotingPowerThreshold ==
    (family = "main" /\ op = "main") =>
        /\ ret.err = "none" => RefVotesGte(args.value, args.voting_power_threshold)
        /\ ret.err \in {"none", "voting_power_below_threshold"} =>
              ((ret.err = "none")
                  <=> RefVotesGte(args.value, args.voting_power_threshold))

\* Accepted: the first byte of value is above the threshold's, its last
\* voting-power byte and its block number are below
C18_Witness ==
    /\ family = "main"
    /\ op = "main"
    /\ ret.err = "none"
    /\ args.value[1] > args.voting_power_threshold[1]
    /\ args.value[28] < args.voting_power_threshold[28]
    /\ args.value[29] < args.voting_power_threshold[29]

\* The number of path nibbles in the hex-prefix field of the node in win
RefPathLen(win) ==
    LET hp == RefNibbles(RefFirstField(win))
    IN  Len(hp) - (IF hp[1] % 2 = 1 THEN 1 ELSE 2)

\* The cursor after the terminal node of an accepted run
TerminalCursor == key_ptr + RefPathLen(Window(proof, LeafWindow))

\* The cursor starts at 0, does not decrease in a step and stays within the
\* key nibbles
CursorMoves ==
    /\ [](family \in {"value", "tamper", "wide"} =>
            /\ (pc = "call" \/ (pc = "loop" /\ i = 0)) => key_ptr = 0
            /\ pc \in {"loop", "returned"} => key_ptr <= NIBBLE_LENGTH)
    /\ [][(pc = "loop" /\ pc' \in {"loop", "returned"}) => key_ptr' >= key_ptr]_vars

\* C19 as stated.  The cursor starts at 0, never decreases from one step to
\* the next, never exceeds the number of key nibbles, and after an accepted
\* run stands at 2 * KEY_LEN, KEY_LEN being the length of the proof's key
\* (32 for a storage proof, 20 for a state proof).
C19_CursorEndsAtTwiceKeyLen ==
    /\ CursorMoves
    /\ [](pc = "returned" => TerminalCursor = 2 * Len(key))

\* C19, amended.  The cursor starts at 0, never decreases from one step to
\* the next, never exceeds the number of key nibbles, and after an accepted
\* run stands at 2 * KEY_LENGTH = 64, the number of nibbles of the hashed
\* key, for storage and for state proofs.
C19_CursorEndsAtHashedKeyLen ==
    /\ CursorMoves
    /\ [](pc = "returned" => TerminalCursor = 2 * KEY_LENGTH)

\* An accepted state proof of three nodes: the key has 20 bytes, the cursor
\* stood at 3 before the leaf and ends at 64
C19_Witness ==
    /\ kind = "state"
    /\ pc = "returned"
    /\ Len(key) = 20
    /\ depth = U64(3)
    /\ key_ptr = 3
    /\ TerminalCursor = 64

\* The windows of the internal steps a run has taken so far, in the order taken
InternalWindows == [k \in 1..Len(SelectSeq(trace, LAMBDA e : ~e.leaf)) |->
                       SelectSeq(trace, LAMBDA e : ~e.leaf)[k].win]

\* depth is between 1 and the number of windows of the proof buffer
DepthFits == SmallDepth(depth) /\ 1 <= depth[1] /\ depth[1] <= proof.len \div MAX_TRIE_NODE_LENGTH

\* C20.  Active iterations: when 1 <= depth <= PROOF_LEN/532, iteration i of
\* the loop (0 <= i <= PROOF_LEN/532 - 2) is treated as in range exactly when
\* i <= depth - 2: the windows hash-checked and resolved as internal nodes
\* are 0, 1, ... in increasing order, each once, none beyond depth - 2, and
\* all of 0 .. depth - 2 once the run is accepted; an iteration beyond
\* depth - 2 changes neither the expected hash nor the cursor.
C20_ActiveIterations ==
    /\ [](DepthFits =>
            /\ \A k \in 1..Len(InternalWindows) :
                   InternalWindows[k] = k - 1 /\ k - 1 <= depth[1] - 2
            /\ pc = "returned" => Len(InternalWindows) = depth[1] - 1)
    /\ [][(DepthFits /\ pc = "loop" /\ i < loop_count(proof) /\ i > depth[1] - 2
              /\ pc' = "loop")
            => (extracted_hash' = extracted_hash /\ key_ptr' = key_ptr)]_vars

\* A run with depth 2 on a buffer of 258 windows is accepted after iteration
\* 256 hash-checked and resolved window 256 as an internal node
C20_Witness ==
    /\ family = "wide"
    /\ pc = "returned"
    /\ depth = U64(2)
    /\ proof.len = 258 * MAX_TRIE_NODE_LENGTH
    /\ InternalWindows = <<0, 256>>

(***************************************************************************)
(* The offsets decode1 records                                             *)
(***************************************************************************)
\* The index (from 0) at which item k of the list b begins
RECURSIVE RefItemStart(_, _)
RefItemStart(b, k) ==
    IF k = 1 THEN RefItem(b, 1).hdr
    ELSE RefItemStart(b, k - 1) + RefItem(b, RefItemStart(b, k - 1) + 1).hdr
                                + RefItem(b, RefItemStart(b, k - 1) + 1).len

\* C22.  Offset asymmetry in decode1: for every string item the recorded
\* offset is the index of its first payload byte and the recorded length is
\* the payload length; for every nested-list item the recorded offset is the
\* index of the item's RLP header and the recorded length is header length
\* plus payload length; in both cases offset[i] + length[i] is the index
\* where item i+1 begins.
C22_OffsetAsymmetry ==
    (op = "decode1" /\ ret.r.err = "none") =>
        \A k \in 1..ret.r.num_fields :
            LET start == RefItemStart(args.input, k)
                it == RefItem(args.input, start + 1)
            IN  /\ ret.r.data_type[k] = (IF it.list THEN RLP_LIST ELSE RLP_STRING)
                /\ ~it.list => /\ ret.r.offset[k] = start + it.hdr
                               /\ ret.r.length[k] = it.len
                /\ it.list => /\ ret.r.offset[k] = start
                              /\ ret.r.length[k] = it.hdr + it.len
                /\ ret.r.offset[k] + ret.r.length[k] = RefItemStart(args.input, k + 1)

\* The list (0x81, [56 bytes], [5]) decoded with capacity 3: the string is
\* recorded by its payload at index 2, the nested lists by their headers at
\* indices 3 and 61 with lengths 58 and 2
C22_Witness ==
    /\ op = "decode1"
    /\ args.fam = "list"
    /\ Len(args.input) = 63
    /\ ret.r.err = "none"
    /\ ret.r.data_type = <<RLP_STRING, RLP_LIST, RLP_LIST>>
    /\ ret.r.offset = <<2, 3, 61>>
    /\ ret.r.length = <<1, 58, 2>>

(***************************************************************************)
(* Stand-alone calls of byte_value (utils.nr)                              *)
(***************************************************************************)
\* The longest array enumerated byte by byte
MaxBytes == 4

\* Arrays of at most MaxBytes bytes over 0, 1 and 255, and the arrays of
\* byte_value_test
ByteValueInputs ==
    {[fam |-> "bytes", input |-> b, fields |-> <<>>] : b \in SeqsUpTo({0, 1, 255}, MaxBytes)}
    \cup {[fam |-> "test", input |-> b, fields |-> <<>>] :
            b \in {<<0, 0, 0, 1, 2, 3>>,
                   [k \in 1..32 |-> IF k <= 29 THEN k ELSE 0],
                   [k \in 1..32 |-> IF 11 <= k /\ k <= 20 THEN k ELSE 0]}}

InitBytes ==
    /\ family = "bytes"
    /\ VerifierIdle
    /\ op = "idle"
    /\ args \in ByteValueInputs
    /\ ret = <<>>

\* byte_value(in_value)
ByteValue ==
    /\ family = "bytes"
    /\ op = "idle"
    /\ op' = "byte_value"
    /\ ret' = [F |-> 0, r |-> byte_value(args.input)]
    /\ UNCHANGED args
    /\ VerifierUnchanged

NextBytes == ByteValue

SpecBytes == InitBytes /\ [][NextBytes]_vars

\* The number of zero bytes b begins with
RefLeadZeros(b) ==
    IF \A k \in 1..Len(b) : b[k] = 0 THEN Len(b)
    ELSE (CHOOSE k \in 1..Len(b) : b[k] # 0 /\ \A j \in 1..(k - 1) : b[j] = 0) - 1

\* C27.  byte_value: for every byte array of length N, byte_value returns
\* (shifted, n) where n = N minus the index of the first non-zero byte
\* (n = 0 when every byte is zero), shifted[i] = in[N - n + i] for i < n,
\* and shifted[i] = 0 for every i >= n.
C27_ByteValue ==
    op = "byte_value" =>
        LET in == args.input
            N == Len(in)
            n == N - RefLeadZeros(in)
        IN  /\ ret.r.value_length = n
            /\ Len(ret.r.value) = N
            /\ \A k \in 1..N :
                  ret.r.value[k] = (IF k <= n THEN in[N - n + k] ELSE 0)

\* byte_value([0,0,0,1,2,3]) = ([1,2,3,0,0,0], 3), as in byte_value_test
C27_Witness ==
    /\ op = "byte_value"
    /\ args.input = <<0, 0, 0, 1, 2, 3>>
    /\ ret.r = [value |-> <<1, 2, 3, 0, 0, 0>>, value_length |-> 3]

\* n <= Len(b), b[0..n) is not all zero and b[n..) is all zero
ZeroTailFrom(b, n) ==
    /\ \E k \in 1..n : b[k] # 0
    /\ \A k \in (n + 1)..Len(b) : b[k] = 0

\* C28 as stated.  For every byte array b and every n <= b.len() such that
\* b[0..n] is not all zero and b[n..] is all zero, byte_value(b) returns
\* (b, n') with the array component equal to b itself and
\* n' >= n - lead_zeros(b[0..n]).
C28_ZeroTailUnchanged ==
    op = "byte_value" =>
        \A n \in 0..Len(args.input) :
            ZeroTailFrom(args.input, n) =>
                /\ ret.r.value = args.input
                /\ ret.r.value_length >= n - RefLeadZeros(SubSeq(args.input, 1, n))

\* C28, amended.  For every byte array b and every n <= b.len() such that
\* b[0..n] is not all zero and b[n..] is all zero, byte_value(b) returns
\* (b', n') where b' is b moved left by lead_zeros(b) bytes and filled with
\* zeros, which is b itself exactly when b[0] is not zero, and
\* n' = b.len() - lead_zeros(b) >= n - lead_zeros(b[0..n]).
C28_ZeroTailShifted ==
    op = "byte_value" =>
        \A n \in 0..Len(args.input) :
            ZeroTailFrom(args.input, n) =>
                LET b == args.input
                    z == RefLeadZeros(b)
                IN  /\ ret.r.value = SubSeq(b, z + 1, Len(b)) \o Zeros(z)
                    /\ (ret.r.value = b) <=> (b[1] # 0)
                    /\ ret.r.value_length = Len(b) - z
                    /\ ret.r.value_length >= n - RefLeadZeros(SubSeq(b, 1, n))

\* b = [0, 1, 0] with n = 2: byte_value returns ([1, 0, 0], 2), not b
C28_Witness ==
    /\ op = "byte_value"
    /\ args.input = <<0, 1, 0>>
    /\ ZeroTailFrom(args.input, 2)
    /\ ret.r = [value |-> <<1, 0, 0>>, value_length |-> 2]

(***************************************************************************)
(* Stand-alone calls of the node resolvers (src/unnamed/part_001) on one   *)
(* node window                                                             *)
(***************************************************************************)
\* The longest path, in nibbles, of the enumerated two-field nodes that do
\* not end the key
MaxPathNibbles == 2

\* The nibbles of the key the stand-alone calls resolve
ResolveKey == [k \in 1..NIBBLE_LENGTH |-> (5 * k + 3) % 16]

\* The cursors the resolvers are called with
Cursors == {0, 1, 62, 63, 64}

\* The node windows, each a frame padded with zeros to MAX_TRIE_NODE_LENGTH
\* bytes, with the keccak256 hash of the frame.
\*   FirstFields: hex-prefix encodings of the key nibbles behind cursor c,
\*     of a part of them and of all of them, for extensions and leaves; a
\*     path that differs from the key; a path of 66 nibbles; first bytes
\*     that are no hex-prefix flag (0x40, 0x05, 0x25); the empty string
\*   SecondFields: strings of 32, 20, 33, 1 and 0 bytes
\*   BranchFrames: lists of 17 items: a full branch, a branch without
\*     children, a branch whose child on the path (cursor 0) or beside it is
\*     cut to 20 bytes, a branch with the one child of the key nibble at
\*     cursor 0, 1 or 63; each with and without a value in the 17th slot
\*   OtherFrames: lists of 0, 1, 3, 16 and 18 one-byte items, and a string
ResolveInputs ==
    LET FirstFields ==
            {HexPrefix(SubSeq(ResolveKey, c + 1, c + m), leaf) :
                c \in {0, 1, 62}, m \in 0..MaxPathNibbles, leaf \in BOOLEAN}
            \cup {HexPrefix(SubSeq(ResolveKey, c + 1, NIBBLE_LENGTH), leaf) :
                    c \in {0, 1}, leaf \in BOOLEAN}
            \cup {HexPrefix(<<(ResolveKey[1] + 1) % 16>>, FALSE),
                  HexPrefix(<<ResolveKey[1], (ResolveKey[2] + 1) % 16>>, TRUE),
                  HexPrefix(ResolveKey \o <<1, 2>>, TRUE),
                  <<64, 18>>, <<5>>, <<37, 52>>, <<>>}
        SecondFields ==
            {SiblingHash(1), SubSeq(SiblingHash(1), 1, 20), SiblingHash(1) \o <<9>>,
             <<7>>, <<>>}
        Slots ==
            {[s \in 0..15 |-> SiblingHash(s)],
             [s \in 0..15 |-> <<>>],
             [s \in 0..15 |-> IF s = ResolveKey[1] THEN SubSeq(SiblingHash(s), 1, 20)
                              ELSE SiblingHash(s)],
             [s \in 0..15 |-> IF s = (ResolveKey[1] + 1) % 16
                              THEN SubSeq(SiblingHash(s), 1, 20)
                              ELSE SiblingHash(s)]}
            \cup {[s \in 0..15 |-> IF s = ResolveKey[c + 1] THEN SiblingHash(s) ELSE <<>>] :
                     c \in {0, 1, 63}}
        BranchFrames ==
            {RlpList(Concat([s \in 1..16 |-> RlpStr(slot[s - 1])], 1, 16) \o RlpStr(last)) :
                slot \in Slots, last \in {<<>>, <<5>>}}
        OtherFrames ==
            {RlpList([k \in 1..n |-> k]) : n \in {0, 1, 3, 16, 18}}
            \cup {RlpStr(SiblingHash(1))}
    IN  {[node |-> PadNode(frame), hash |-> NodeDigest(frame), key |-> ResolveKey] :
            frame \in {RlpList(RlpStr(f0) \o RlpStr(f1)) :
                          f0 \in FirstFields, f1 \in SecondFields}
                      \cup BranchFrames \cup OtherFrames}

InitResolve ==
    /\ family = "resolve"
    /\ VerifierIdle
    /\ op = "idle"
    /\ args \in ResolveInputs
    /\ ret = <<>>

\* resolve2::<N, NUM_FIELDS, MAX_VALUE_LEN>(node, rlp_list, key, key_ptr) on
\* the table decode1_small_lis::<N, MAX_NUM_FIELDS> or decode1::<N, 2> gave
Resolve2 ==
    /\ family = "resolve"
    /\ op = "idle"
    /\ \E c \in Cursors, mvl \in {KEY_LENGTH, MAX_STORAGE_VALUE_LENGTH + 1},
          tbl \in {decode1_small_lis(args.node, MAX_NUM_FIELDS), decode1(args.node, 2)} :
          /\ tbl.err = "none"
          /\ ret' = [tbl |-> tbl, key_ptr |-> c, mvl |-> mvl, depth |-> 0,
                     r |-> resolve2(args.node, tbl, args.key, c, mvl)]
    /\ op' = "resolve2"
    /\ UNCHANGED args
    /\ VerifierUnchanged

\* resolve17::<N, MAX_NUM_FIELDS>(node, rlp_list, key, key_ptr) on the table
\* decode1_small_lis gave
Resolve17 ==
    /\ family = "resolve"
    /\ op = "idle"
    /\ \E c \in Cursors :
          LET tbl == decode1_small_lis(args.node, MAX_NUM_FIELDS)
          IN  /\ tbl.err = "none"
              /\ ret' = [tbl |-> tbl, key_ptr |-> c, mvl |-> 0, depth |-> 0,
                         r |-> resolve17(args.node, tbl, args.key, c)]
    /\ op' = "resolve17"
    /\ UNCHANGED args
    /\ VerifierUnchanged

\* resolve_nibble32(key, key_ptr, node)
ResolveNibble32 ==
    /\ family = "resolve"
    /\ op = "idle"
    /\ \E c \in Cursors :
          ret' = [tbl |-> decode1_small_lis(args.node, MAX_NUM_FIELDS), key_ptr |-> c,
                  mvl |-> KEY_LENGTH, depth |-> 0,
                  r |-> resolve_nibble32(args.key, c, args.node)]
    /\ op' = "resolve_nibble32"
    /\ UNCHANGED args
    /\ VerifierUnchanged

\* verify_internal_node(&mut extracted_hash, &mut key_ptr, key_nibbles, path,
\* depth, 0) on a path of one window, with the hash of the node expected:
\* iteration 0 is in range for depth 2 and out of range for depth 1
VerifyInternalNodeCall ==
    /\ family = "resolve"
    /\ op = "idle"
    /\ \E c \in Cursors, d \in 1..2 :
          ret' = [tbl |-> decode1_small_lis(args.node, MAX_NUM_FIELDS), key_ptr |-> c,
                  mvl |-> KEY_LENGTH, depth |-> d,
                  r |-> verify_internal_node(args.hash, c, args.key, Bytes(args.node),
                                             U64(d), 0)]
    /\ op' = "verify_internal_node"
    /\ UNCHANGED args
    /\ VerifierUnchanged

NextResolve ==
    \/ Resolve2
    \/ Resolve17
    \/ ResolveNibble32
    \/ VerifyInternalNodeCall

SpecResolve == InitResolve /\ [][NextResolve]_vars

\* The nibbles a hex-prefix field f announces: those of its bytes without
\* the flag nibble, and without the nibble behind it when the flag is even
RefPath(f) ==
    LET hp == RefNibbles(f)
    IN  SubSeq(hp, IF hp[1] % 2 = 1 THEN 2 ELSE 3, Len(hp))

\* C23.  Resolve-2: for a 2-field table, with h the first byte of field 0
\* and t = h >> 4, resolve2 fails unless t < 4 and (t even implies the low
\* nibble of h is 0); the decoded nibble count is
\* 2*length(field 0) - 2 + (t & 1); it fails unless cursor + count <= 64 and
\* the decoded nibbles equal the key nibbles at positions
\* [cursor, cursor + count); on success it returns cursor + count, the bytes
\* and length of field 1, and node type LEAF iff t >= 2.
C23_Resolve2 ==
    (op = "resolve2" /\ ret.tbl.num_fields = 2 /\ ret.r.err = "none") =>
        LET f0 == Slice(args.node, ret.tbl.offset[1], ret.tbl.length[1])
            f1 == Slice(args.node, ret.tbl.offset[2], ret.tbl.length[2])
            h == f0[1]
            t == h \div 16
            count == 2 * Len(f0) - 2 + (t % 2)
            cursor == ret.key_ptr
        IN  /\ Len(f0) >= 1
            /\ t < 4
            /\ (t % 2 = 0) => (h % 16 = 0)
            /\ count = Len(RefPath(f0))
            /\ cursor + count <= NIBBLE_LENGTH
            /\ RefPath(f0) = SubSeq(args.key, cursor + 1, cursor + count)
            /\ ret.r.key_ptr = cursor + count
            /\ ret.r.value_length = Len(f1)
            /\ SubSeq(ret.r.value, 1, Len(f1)) = f1
            /\ (ret.r.node_type = LEAF) <=> (t >= 2)

\* A leaf whose path is the last two key nibbles, resolved at cursor 62:
\* the cursor ends at 64 and the 32 bytes of field 1 come back
C23_Witness ==
    /\ op = "resolve2"
    /\ ret.tbl.num_fields = 2
    /\ ret.key_ptr = 62
    /\ Slice(args.node, ret.tbl.offset[1], ret.tbl.length[1])
           = <<32, 16 * ResolveKey[63] + ResolveKey[64]>>
    /\ ret.r.err = "none"
    /\ ret.r.key_ptr = 64
    /\ ret.r.node_type = LEAF
    /\ ret.r.value_length = 32
    /\ SubSeq(ret.r.value, 1, 32) = SiblingHash(1)

\* C24.  Resolve-17: resolve17 fails unless the table has exactly 17 fields,
\* each of the first 16 fields has length 0 or 32, the 17th field has
\* length 0, cursor < 64, and the field indexed by key_nibbles[cursor] has
\* length exactly 32; on success it returns the 32 bytes of that field as
\* the next child hash and cursor + 1.
C24_Resolve17 ==
    (op = "resolve17" /\ ret.r.err = "none") =>
        LET t == ret.tbl
            cursor == ret.key_ptr
        IN  /\ t.num_fields = 17
            /\ \A k \in 1..16 : t.length[k] \in {0, KEY_LENGTH}
            /\ t.length[17] = 0
            /\ cursor < NIBBLE_LENGTH
            /\ t.length[args.key[cursor + 1] + 1] = KEY_LENGTH
            /\ ret.r.resolved_key
                   = Slice(args.node, t.offset[args.key[cursor + 1] + 1], KEY_LENGTH)
            /\ ret.r.resolved_key = SiblingHash(args.key[cursor + 1])
            /\ ret.r.key_ptr = cursor + 1

\* The branch with one child, in the slot of the last key nibble, resolved
\* at cursor 63: the child's hash comes back and the cursor ends at 64
C24_Witness ==
    /\ op = "resolve17"
    /\ ret.key_ptr = 63
    /\ ret.tbl.num_fields = 17
    /\ \A k \in 1..17 : ret.tbl.length[k] = (IF k = ResolveKey[64] + 1 THEN 32 ELSE 0)
    /\ ret.r.err = "none"
    /\ ret.r.resolved_key = SiblingHash(ResolveKey[64])
    /\ ret.r.key_ptr = 64

\* The node of the call is a two-field node whose hex-prefix flag marks a leaf
TwoFieldLeaf ==
    /\ ret.tbl.err = "none"
    /\ ret.tbl.num_fields = 2
    /\ ret.tbl.length[1] >= 1
    /\ args.node[ret.tbl.offset[1] + 1] \div 16 >= 2

\* resolve_nibble32 gives what resolve2 gives on a node of 2 fields (and
\* fails on an extension whose second field has not 32 bytes), what
\* resolve17 gives on a node of 17 fields, and fails on every other node
Dispatches ==
    op = "resolve_nibble32" =>
        LET t == ret.tbl
            r == ret.r
            r2 == resolve2(args.node, t, args.key, ret.key_ptr, KEY_LENGTH)
            r17 == resolve17(args.node, t, args.key, ret.key_ptr)
        IN  /\ t.err # "none" => r.err # "none"
            /\ (t.err = "none" /\ t.num_fields = 2) =>
                  /\ (r.err = "none") <=>
                        (r2.err = "none" /\ (r2.node_type = LEAF \/ r2.value_length = KEY_LENGTH))
                  /\ r.err = "none" =>
                        /\ r.node_type = r2.node_type
                        /\ r.resolved_key = r2.value
                        /\ r.key_ptr = r2.key_ptr
            /\ (t.err = "none" /\ t.num_fields = 17) =>
                  /\ (r.err = "none") <=> (r17.err = "none")
                  /\ r.err = "none" =>
                        /\ r.node_type = BRANCH
                        /\ r.resolved_key = r17.resolved_key
                        /\ r.key_ptr = r17.key_ptr
            /\ (t.err = "none" /\ t.num_fields \notin {2, 17}) => r.err # "none"

\* C25 as stated.  Dispatch: resolve_nibble32 applies resolve2 when the node
\* decodes to 2 fields and resolve17 when it decodes to 17 fields, and fails
\* for every other field count; in the 2-field case resolve_nibble32 fails
\* when the node is a LEAF.
C25_DispatchRejectsLeaf ==
    /\ Dispatches
    /\ (op = "resolve_nibble32" /\ TwoFieldLeaf) => ret.r.err # "none"

\* C25, amended.  Dispatch: resolve_nibble32 applies resolve2 when the node
\* decodes to 2 fields and resolve17 when it decodes to 17 fields, and fails
\* for every other field count; in the 2-field case resolve_nibble32 does
\* not fail because the node is a LEAF: it returns node type LEAF whenever
\* resolve2 succeeds, whatever the length of the second field.  It is
\* verify_internal_node that fails on a LEAF, in an in-range iteration; in
\* an out-of-range iteration a LEAF in window 0 passes and hash and cursor
\* stay as they were.
C25_DispatchReturnsLeaf ==
    /\ Dispatches
    /\ (op = "resolve_nibble32" /\ TwoFieldLeaf) =>
          LET r2 == resolve2(args.node, ret.tbl, args.key, ret.key_ptr, KEY_LENGTH)
          IN  /\ (ret.r.err = "none") <=> (r2.err = "none")
              /\ ret.r.err = "none" => ret.r.node_type = LEAF
    /\ (op = "verify_internal_node" /\ TwoFieldLeaf) =>
          /\ ret.depth = 2 => ret.r.err # "none"
          /\ ret.depth = 1 =>
                /\ (ret.r.err = "none")
                       <=> (resolve2(args.node, ret.tbl, args.key, 0, KEY_LENGTH).err = "none")
                /\ ret.r.err = "none" =>
                      ret.r.extracted_hash = args.hash /\ ret.r.key_ptr = ret.key_ptr

\* resolve_nibble32 at cursor 62 on a leaf with the last two key nibbles
\* and a second field of 20 bytes returns LEAF and cursor 64
C25_Witness ==
    /\ op = "resolve_nibble32"
    /\ TwoFieldLeaf
    /\ ret.key_ptr = 62
    /\ ret.tbl.length[2] = 20
    /\ ret.r.err = "none"
    /\ ret.r.node_type = LEAF
    /\ ret.r.key_ptr = 64

(***************************************************************************)
(* Changed child references                                                *)
(***************************************************************************)
\* The second call runs on an accepted proof in which a 32-byte hash of the
\* branch node of level tamper.pos, in the slot on the path or in the slot
\* behind it, is cut to 20 bytes, with the RLP framing of a 20-byte string
BranchSlotCut ==
    /\ family = "child"
    /\ call = 2
    /\ first.err = "none"
    /\ tamper.t = "child"
    /\ \/ tamper.how = "trunc20" /\ args.shape[tamper.pos] \in {"B", "F"}
       \/ tamper.how = "sibling20" /\ args.shape[tamper.pos] = "F"

\* C21 as stated.  Branch-slot shape violation: when a 32-byte child hash in
\* an internal branch node of an accepted proof is replaced by a 20-byte
\* truncation with the RLP framing adjusted accordingly, verification fails,
\* and the check that fails is the branch-slot-length assertion.
C21_BranchSlotCutFailsAtSlotLength ==
    (BranchSlotCut /\ Finished) =>
        pc = "aborted" /\ err = "branch_slot_length_not_0_or_32"

\* C21, amended.  When a 32-byte child hash in an internal branch node of an
\* accepted proof is replaced by a 20-byte truncation with the RLP framing
\* adjusted accordingly, verification fails.  The check that fails is the
\* branch-slot-length assertion when the hashes above the changed node and
\* the root offered are recomputed for it; offered with the old root, the
\* changed node fails the keccak comparison with the hash expected for it,
\* which comes before the resolution of the node.
C21_BranchSlotCutFails ==
    (BranchSlotCut /\ Finished) =>
        /\ pc = "aborted"
        /\ tamper.rehash => err = "branch_slot_length_not_0_or_32"
        /\ ~tamper.rehash => err = "internal_node_hash_mismatch"
        /\ Len(trace) = tamper.pos - 1

\* The full branch at the second level of a storage proof, the hash beside
\* the path cut to 20 bytes and the hashes above recomputed: the first node
\* passes and the call fails at the slot-length assertion
C21_Witness ==
    /\ BranchSlotCut
    /\ kind = "storage"
    /\ tamper.how = "sibling20"
    /\ tamper.pos = 2
    /\ tamper.rehash
    /\ pc = "aborted"
    /\ Len(trace) = 1
    /\ err = "branch_slot_length_not_0_or_32"

\* The second call runs on an accepted proof in which the child reference
\* on the path of the internal node of level tamper.pos is no string of 32
\* bytes: a string of 20, 31, 33 or 0 bytes, or a nested list
ChildNotHash ==
    /\ family = "child"
    /\ call = 2
    /\ first.err = "none"
    /\ tamper.t = "child"
    /\ tamper.how \in {"trunc20", "trunc20_padded", "short31", "long33", "empty", "inline"}

\* C26.  Inline children are rejected: at every non-terminal step, if the
\* child reference selected by the key path (the branch slot at the current
\* nibble, or the second field of an extension node) is not a string of
\* exactly 32 bytes, for example an inline child node embedded as a nested
\* list or a string shorter than 32 bytes, verification fails; it fails at
\* that step, also when every hash above the node is the right one.
C26_InlineChildRejected ==
    (ChildNotHash /\ Finished) =>
        /\ pc = "aborted"
        /\ Len(trace) = tamper.pos - 1

\* An extension whose second field embeds a leaf as a nested list, the
\* hashes above recomputed: the call fails at the extension
C26_Witness ==
    /\ ChildNotHash
    /\ tamper.how = "inline"
    /\ tamper.rehash
    /\ args.shape[tamper.pos] = "E2"
    /\ pc = "aborted"
    /\ Len(trace) = 1
    /\ err # "internal_node_hash_mismatch"

(***************************************************************************)
(* The bytes behind a node's frame                                         *)
(***************************************************************************)
\* The second call runs on the proof of the first call with one byte behind
\* the RLP frame of a node, inside the node's window, given another value
PaddingChanged ==
    /\ family = "child"
    /\ call = 2
    /\ tamper.t = "pad_byte"

\* C29.  Padding independence: the outcome of verify_storage_root and
\* verify_state_root does not depend on the values of the padding bytes that
\* follow a node's RLP frame inside its 532-byte window; two proofs that
\* agree on every node's framed bytes and differ only in those padding bytes
\* have the same outcome.
C29_PaddingIndependence ==
    (PaddingChanged /\ Finished) => err = first.err /\ trace = first.trace

\* The proof of an extension, a full branch and a leaf is accepted with
\* zeros behind every frame and rejected, at the extension, with the byte
\* 0xb8 right behind the frame of the extension
C29_Witness ==
    /\ PaddingChanged
    /\ first.err = "none"
    /\ args.shape = <<"E1", "F">>
    /\ tamper.pos = FrameLen(proof, 0) + 1
    /\ tamper.val = 184
    /\ pc = "aborted"
    /\ err = "small_list_header_too_big"
    /\ Len(trace) = 0

(***************************************************************************)
(* The cursor from node to node                                            *)
(***************************************************************************)
\* The cursor before the internal node recorded as entry k of the trace
CursorBefore(k) == IF k = 1 THEN 0 ELSE trace[k - 1].ptr

\* C30.  Progress per node: every in-range internal step of an accepting run
\* (branch or extension) advances the nibble cursor by at least one nibble,
\* so no accepted proof has depth greater than 2*32 + 1 = 65.
C30_ProgressPerNode ==
    pc = "returned" =>
        /\ \A k \in 1..Len(trace) :
               ~trace[k].leaf => trace[k].ptr >= CursorBefore(k) + 1
        /\ depth[1] <= 2 * KEY_LENGTH + 1
        /\ \A l \in 2..4 : depth[l] = 0

\* A proof of two extensions without nibbles, a branch and a leaf is
\* accepted: the cursor is 0 before and after each of the two extensions
C30_Witness ==
    /\ family = "child"
    /\ call = 1
    /\ pc = "returned"
    /\ args.shape = <<"E0", "E0", "B">>
    /\ depth = U64(4)
    /\ Len(trace) = 4
    /\ trace[1].ptr = 0
    /\ trace[2].ptr = 0
    /\ trace[3].ptr = 1
====
